---- MODULE Spec2Model ----
(***************************************************************************)
(* A model of Drawdance's canvas state machine (libengine/dpengine/        *)
(* canvas_state.c): reference-counted canvas states, layer lists, layers   *)
(* and tiles on an explicit heap, the transient/persist protocol, and one  *)
(* action per drawing message handled by DP_canvas_state_handle.           *)
(*                                                                         *)
(* Heap objects are records held in sequences; an address is an index.     *)
(* Objects are never reused: a released object keeps its fields and gets   *)
(* freed = TRUE.  The caller of DP_canvas_state_handle keeps every         *)
(* snapshot it was ever handed (snapshot retention), so every earlier      *)
(* snapshot stays on the heap for comparison.                              *)
(***************************************************************************)
EXTENDS Integers, Sequences, FiniteSets, TLC

VARIABLES heap, cur, log, pre, crashed, steps, threads, diff, view

vars == <<heap, cur, log, pre, crashed, steps, threads, diff, view>>

(* Number of messages handled after the initial history. *)
MaxSteps == 2

NULL == 0
INT16_MAX == 32767
INT_MAX == 2147483647
INT_MIN == (-INT_MAX) - 1

(***************************************************************************)
(* C int arithmetic: 32 bits, two's complement.  Signed overflow is        *)
(* undefined in C; the outcome modelled is the wrap-around every common    *)
(* build produces.  The sums are arranged so that no intermediate value    *)
(* leaves the 32-bit range.                                                *)
(***************************************************************************)
int_add(a, b) ==
    IF b > 0 /\ a > INT_MAX - b THEN ((a - INT_MAX) - 1) + ((b - INT_MAX) - 1)
    ELSE IF b < 0 /\ a < INT_MIN - b THEN ((a + INT_MAX) + 1) + ((b + INT_MAX) + 1)
    ELSE a + b

int_neg(a) == IF a = INT_MIN THEN INT_MIN ELSE -a

(* a + b leaves the range of int.  A build that traps on signed overflow   *)
(* (-ftrapv, a sanitizer) aborts the process there.                        *)
int_add_overflows(a, b) == (b > 0 /\ a > INT_MAX - b) \/ (b < 0 /\ a < INT_MIN - b)

DP_max_int(a, b) == IF a < b THEN b ELSE a

DP_min_int(a, b) == IF a < b THEN a ELSE b

(***************************************************************************)
(* Tiles (tile.h is not part of the sources at hand): a canvas is stored,  *)
(* compared and rendered in blocks of DP_TILE_SIZE x DP_TILE_SIZE pixels,  *)
(* numbered row by row.                                                    *)
(***************************************************************************)
DP_TILE_SIZE == 64

(* The number of tiles that cover i pixels. *)
DP_tile_size_round_up(i) == (i + (DP_TILE_SIZE - 1)) \div DP_TILE_SIZE

DP_tile_total_round(width, height) ==
    DP_tile_size_round_up(width) * DP_tile_size_round_up(height)

(* The index of the tile that holds pixel p of a layer width pixels wide. *)
tile_index_at(p, width) ==
    (p[2] \div DP_TILE_SIZE) * DP_tile_size_round_up(width) + (p[1] \div DP_TILE_SIZE)

(***************************************************************************)
(* Blend modes (blend_mode.c is not part of the sources at hand).          *)
(***************************************************************************)
DP_blend_mode_exists(blend_mode) == blend_mode \in {"NORMAL", "MULTIPLY", "REPLACE"}

DP_blend_mode_valid_for_brush(blend_mode) == blend_mode \in {"NORMAL", "MULTIPLY"}

(***************************************************************************)
(* The heap.                                                               *)
(***************************************************************************)
EmptyHeap == [cs |-> <<>>, ll |-> <<>>, ly |-> <<>>, tile |-> <<>>, img |-> <<>>]

(* A handler's outcome: the heap it leaves, the pointer it returns (NULL   *)
(* on failure), the transient canvas state it built (NULL if none), and    *)
(* whether the process was aborted instead of returning.                   *)
Outcome(h, ret, tcs, crash) == [heap |-> h, ret |-> ret, tcs |-> tcs, crash |-> crash]

(* ------------------------------ tiles ---------------------------------- *)
DP_tile_new_from_bgra(h, context_id, bgra) ==
    [h EXCEPT !.tile = Append(@, [refcount |-> 1, pixel |-> bgra, freed |-> FALSE])]

DP_tile_incref_nullable(h, t) ==
    IF t = NULL THEN h ELSE [h EXCEPT !.tile[t].refcount = @ + 1]

DP_tile_decref_nullable(h, t) ==
    IF t = NULL THEN h
    ELSE [h EXCEPT !.tile[t].refcount = @ - 1,
                   !.tile[t].freed = (h.tile[t].refcount = 1)]

(* ------------------------------ layers --------------------------------- *)
DP_layer_incref(h, l) == [h EXCEPT !.ly[l].refcount = @ + 1]

DP_layer_decref(h, l) ==
    [h EXCEPT !.ly[l].refcount = @ - 1, !.ly[l].freed = (h.ly[l].refcount = 1)]

RECURSIVE IncrefLayers(_, _)
IncrefLayers(h, elems) ==
    IF elems = <<>> THEN h
    ELSE IncrefLayers(DP_layer_incref(h, Head(elems)), Tail(elems))

RECURSIVE DecrefLayers(_, _)
DecrefLayers(h, elems) ==
    IF elems = <<>> THEN h
    ELSE DecrefLayers(DP_layer_decref(h, Head(elems)), Tail(elems))

(* A transient copy of layer l: same fields, refcount 1. *)
DP_transient_layer_new(h, l) ==
    [h EXCEPT !.ly = Append(@, [h.ly[l] EXCEPT !.refcount = 1, !.transient = TRUE,
                                               !.freed = FALSE])]

(* Layer content is the set of its non-blank pixels <<x, y, colour>>; a    *)
(* 32-bit colour is the pair <<high 16 bits, low 16 bits>>.                *)
BLANK == <<0, 0>>

Rect(left, top, right, bottom) == (left .. (right - 1)) \X (top .. (bottom - 1))

Paint(pix, points, colour) ==
    {t \in pix : <<t[1], t[2]>> \notin points}
        \cup (IF colour = BLANK THEN {} ELSE {<<p[1], p[2], colour>> : p \in points})

(* Content `over` composited onto content `base`. *)
Composite(base, over) ==
    {t \in base : \A o \in over : <<o[1], o[2]>> # <<t[1], t[2]>>} \cup over

(* Content moved by (dx, dy) and clipped to width x height. *)
Translate(pix, dx, dy, width, height) ==
    {<<t[1] + dx, t[2] + dy, t[3]>> :
        t \in {u \in pix : /\ u[1] + dx >= 0 /\ u[1] + dx < width
                            /\ u[2] + dy >= 0 /\ u[2] + dy < height}}

(* The tiles of a layer are objects of their own.  tiles is the set of    *)
(* <<tile index, tile>> of the cells that hold one (a blank cell holds     *)
(* none); a tile is <<"tile", t>>, the heap tile t shared as it is, or     *)
(* <<"layer", tl>>, the tile transient layer tl made for that cell.        *)
(* After transient layer tl wrote the pixels at points, every cell it      *)
(* touched holds a tile of its own, or none when the cell is blank now.    *)
tiles_written(rec, points, tl) ==
    {e \in rec.tiles : \A p \in points : tile_index_at(p, rec.width) # e[1]}
        \cup {<<tile_index_at(t, rec.width), <<"layer", tl>>>> :
                 t \in {u \in rec.pix :
                           \E p \in points : tile_index_at(p, rec.width)
                                                   = tile_index_at(u, rec.width)}}

written(h, tl, points) ==
    [h EXCEPT !.ly[tl].tiles = tiles_written(h.ly[tl], points, tl)]

(* Transient layer tl wrote all of its pixels. *)
written_all(h, tl) == written(h, tl, {<<t[1], t[2]>> : t \in h.ly[tl].pix})

(* A new transient layer of the given size, every pixel taken from the     *)
(* fill tile (blank without one), which every cell then shares.            *)
DP_transient_layer_new_init(h, layer_id, width, height, tile) ==
    [h EXCEPT !.ly = Append(@,
        [refcount |-> 1, transient |-> TRUE, freed |-> FALSE, id |-> layer_id,
         title |-> "", opacity |-> 255, blend_mode |-> "NORMAL", visible |-> TRUE,
         censored |-> FALSE, fixed |-> FALSE, width |-> width, height |-> height,
         pix |-> IF tile = NULL THEN {}
                 ELSE Paint({}, Rect(0, 0, width, height), h.tile[tile].pixel),
         tiles |-> IF tile = NULL THEN {}
                   ELSE {<<i, <<"tile", tile>>>> :
                            i \in 0 .. (DP_tile_total_round(width, height) - 1)},
         subs |-> <<>>])]

(* ---------------------------- layer lists ------------------------------ *)
DP_layer_list_new(h) ==
    [h EXCEPT !.ll = Append(@, [refcount |-> 1, transient |-> FALSE, freed |-> FALSE,
                                elems |-> <<>>])]

DP_layer_list_incref(h, ll) == [h EXCEPT !.ll[ll].refcount = @ + 1]

DP_layer_list_decref(h, ll) ==
    IF h.ll[ll].refcount = 1
    THEN DecrefLayers([h EXCEPT !.ll[ll].refcount = 0, !.ll[ll].freed = TRUE],
                      h.ll[ll].elems)
    ELSE [h EXCEPT !.ll[ll].refcount = @ - 1]

DP_layer_list_transient(h, ll) == h.ll[ll].transient

DP_layer_list_layer_count(h, ll) == Len(h.ll[ll].elems)

DP_transient_layer_list_new(h, ll, reserve) ==
    IncrefLayers([h EXCEPT !.ll = Append(@, [refcount |-> 1, transient |-> TRUE,
                                            freed |-> FALSE, elems |-> h.ll[ll].elems])],
                 h.ll[ll].elems)

RECURSIVE PersistLayers(_, _)
PersistLayers(h, elems) ==
    IF elems = <<>> THEN h
    ELSE PersistLayers([h EXCEPT !.ly[Head(elems)].transient = FALSE], Tail(elems))

DP_transient_layer_list_persist(h, tll) ==
    [PersistLayers(h, h.ll[tll].elems) EXCEPT !.ll[tll].transient = FALSE]

(* Makes the layer at index i (1-based here) of the list transient in      *)
(* place and leaves its address in the list.  The list itself is written.  *)
DP_transient_layer_list_transient_at(h, tll, i) ==
    IF h.ly[h.ll[tll].elems[i]].transient THEN h
    ELSE [DP_layer_decref(DP_transient_layer_new(h, h.ll[tll].elems[i]),
                          h.ll[tll].elems[i])
             EXCEPT !.ll[tll].elems[i] = Len(h.ly) + 1]

(* The pointer DP_transient_layer_list_transient_at(h, tll, i) returns. *)
transient_at(h, tll, i) ==
    IF h.ly[h.ll[tll].elems[i]].transient THEN h.ll[tll].elems[i] ELSE Len(h.ly) + 1

LayerIds(h, ll) == {h.ly[h.ll[ll].elems[k]].id : k \in 1 .. Len(h.ll[ll].elems)}

(* The least member of a set of indexes, 0 for the empty set. *)
FirstOf(hits) == IF hits = {} THEN 0 ELSE CHOOSE k \in hits : \A k2 \in hits : k <= k2

(* Index (1-based) of the layer with the given id, 0 when there is none. *)
IndexById(h, ll, layer_id) ==
    FirstOf({k \in 1 .. Len(h.ll[ll].elems) : h.ly[h.ll[ll].elems[k]].id = layer_id})

(* A layer and each of its sublayers at the new size, content moved by     *)
(* (left, top).                                                            *)
layer_resized(rec, top, left, width, height) ==
    [rec EXCEPT !.refcount = 1, !.transient = TRUE, !.freed = FALSE,
                !.width = width, !.height = height,
                !.pix = Translate(@, left, top, width, height),
                !.tiles = {},
                !.subs = [k \in DOMAIN @ |->
                            [@[k] EXCEPT !.pix = Translate(@, left, top, width, height)]]]

DP_layer_resize(rec, top, right, bottom, left) ==
    layer_resized(rec, top, left, int_add(int_add(rec.width, left), right),
                  int_add(int_add(rec.height, top), bottom))

(* Every layer of the list is replaced by a resized transient copy that    *)
(* holds tiles of its own.                                                 *)
RECURSIVE ResizeFrom(_, _, _, _, _, _, _)
ResizeFrom(h, tll, i, top, right, bottom, left) ==
    IF i > Len(h.ll[tll].elems) THEN h
    ELSE ResizeFrom(
             [DP_layer_decref(
                  written_all([h EXCEPT !.ly = Append(@, DP_layer_resize(h.ly[h.ll[tll].elems[i]],
                                                                        top, right, bottom, left))],
                              Len(h.ly) + 1),
                  h.ll[tll].elems[i])
                 EXCEPT !.ll[tll].elems[i] = Len(h.ly) + 1],
             tll, i + 1, top, right, bottom, left)

DP_transient_layer_list_resize(h, tll, context_id, top, right, bottom, left) ==
    ResizeFrom(h, tll, 1, top, right, bottom, left)

InsertAt(seq, k, e) == SubSeq(seq, 1, k - 1) \o <<e>> \o SubSeq(seq, k, Len(seq))

RemoveAt(seq, k) == SubSeq(seq, 1, k - 1) \o SubSeq(seq, k + 1, Len(seq))

(* The new layer (the last on heap h) gets its id and title and its place  *)
(* in the list.                                                            *)
layer_create_insert(h, tll, layer_id, title, target) ==
    [h EXCEPT !.ly[Len(h.ly)].id = layer_id, !.ly[Len(h.ly)].title = title,
              !.ll[tll].elems = InsertAt(@, target, Len(h.ly))]

(* Result: [heap, ok]. *)
DP_transient_layer_list_layer_create(h, tll, layer_id, source_id, tile, insert, copy, width, height, title) ==
    IF layer_id \in LayerIds(h, tll) THEN [heap |-> h, ok |-> FALSE]
    ELSE IF copy /\ IndexById(h, tll, source_id) = 0 THEN [heap |-> h, ok |-> FALSE]
    ELSE [heap |-> layer_create_insert(
                       IF copy
                       THEN DP_transient_layer_new(
                                h, h.ll[tll].elems[IndexById(h, tll, source_id)])
                       ELSE DP_transient_layer_new_init(h, layer_id, width, height, tile),
                       tll, layer_id, title,
                       IF insert THEN IndexById(h, tll, source_id) + 1
                       ELSE Len(h.ll[tll].elems) + 1),
          ok |-> TRUE]

(* Index (1-based) of the sublayer with the given id in layer l, 0 if none. *)
SublayerIndex(h, l, sublayer_id) ==
    FirstOf({k \in 1 .. Len(h.ly[l].subs) : h.ly[l].subs[k].id = sublayer_id})

(* Layer tl gets an empty sublayer with the given id unless it has one. *)
with_sublayer(h, tl, sublayer_id) ==
    IF sublayer_id = 0 \/ SublayerIndex(h, tl, sublayer_id) # 0 THEN h
    ELSE [h EXCEPT !.ly[tl].subs = Append(@, [id |-> sublayer_id, opacity |-> 255,
                                              blend_mode |-> "NORMAL", pix |-> {}])]

(* Pixels a sequence of dabs covers inside a width x height layer. *)
DabPoints(x, y, dabs, width, height) ==
    {p \in {<<x + dabs[k][1], y + dabs[k][2]>> : k \in 1 .. Len(dabs)} :
        p[1] >= 0 /\ p[1] < width /\ p[2] >= 0 /\ p[2] < height}

(* The dabs land on transient layer tl, or on its sublayer k when the      *)
(* stroke is indirect (k # 0), whose opacity and blend mode are set.       *)
layer_draw_dabs(h, tl, k, sublayer_blend_mode, sublayer_opacity, params, points) ==
    IF k = 0
    THEN written([h EXCEPT !.ly[tl].pix = Paint(@, points, params.color)], tl, points)
    ELSE [h EXCEPT !.ly[tl].subs[k].opacity = sublayer_opacity,
                   !.ly[tl].subs[k].blend_mode = sublayer_blend_mode,
                   !.ly[tl].subs[k].pix = Paint(@, points, params.color)]

DP_transient_layer_draw_dabs(h, tl, sublayer_id, sublayer_blend_mode, sublayer_opacity, params) ==
    layer_draw_dabs(with_sublayer(h, tl, sublayer_id), tl,
                    IF sublayer_id = 0 THEN 0
                    ELSE SublayerIndex(with_sublayer(h, tl, sublayer_id), tl, sublayer_id),
                    sublayer_blend_mode, sublayer_opacity, params,
                    DabPoints(params.x, params.y, params.dabs,
                              h.ly[tl].width, h.ly[tl].height))

(* The layer-list operations below share one shape: look the layer up,     *)
(* fail when it is missing, make it transient, change it.                  *)
(* Result: [heap, ok].  params: [x, y, color, blend_mode, dabs].           *)
DP_transient_layer_list_draw_dabs(h, tll, layer_id, sublayer_id, sublayer_blend_mode, sublayer_opacity, params) ==
    IF IndexById(h, tll, layer_id) = 0 THEN [heap |-> h, ok |-> FALSE]
    ELSE [heap |-> DP_transient_layer_draw_dabs(
                       DP_transient_layer_list_transient_at(
                           h, tll, IndexById(h, tll, layer_id)),
                       transient_at(h, tll, IndexById(h, tll, layer_id)),
                       sublayer_id, sublayer_blend_mode, sublayer_opacity, params),
          ok |-> TRUE]

layer_attr(h, tl, k, opacity, blend_mode, censored, fixed) ==
    IF k # 0
    THEN [h EXCEPT !.ly[tl].subs[k].opacity = opacity,
                   !.ly[tl].subs[k].blend_mode = blend_mode]
    ELSE [h EXCEPT !.ly[tl].opacity = opacity, !.ly[tl].blend_mode = blend_mode,
                   !.ly[tl].censored = censored, !.ly[tl].fixed = fixed]

DP_transient_layer_list_layer_attr(h, tll, layer_id, sublayer_id, opacity, blend_mode, censored, fixed) ==
    IF IndexById(h, tll, layer_id) = 0 THEN [heap |-> h, ok |-> FALSE]
    ELSE IF /\ sublayer_id # 0
            /\ SublayerIndex(h, h.ll[tll].elems[IndexById(h, tll, layer_id)],
                             sublayer_id) = 0
    THEN [heap |-> h, ok |-> FALSE]
    ELSE [heap |-> layer_attr(
                       DP_transient_layer_list_transient_at(
                           h, tll, IndexById(h, tll, layer_id)),
                       transient_at(h, tll, IndexById(h, tll, layer_id)),
                       IF sublayer_id = 0 THEN 0
                       ELSE SublayerIndex(h, h.ll[tll].elems[IndexById(h, tll, layer_id)],
                                          sublayer_id),
                       opacity, blend_mode, censored, fixed),
          ok |-> TRUE]

DP_transient_layer_list_layer_retitle(h, tll, layer_id, title) ==
    IF IndexById(h, tll, layer_id) = 0 THEN [heap |-> h, ok |-> FALSE]
    ELSE [heap |-> [DP_transient_layer_list_transient_at(
                        h, tll, IndexById(h, tll, layer_id))
                       EXCEPT !.ly[transient_at(h, tll, IndexById(h, tll, layer_id))].title =
                                  title],
          ok |-> TRUE]

DP_transient_layer_list_layer_visibility(h, tll, layer_id, visible) ==
    IF IndexById(h, tll, layer_id) = 0 THEN [heap |-> h, ok |-> FALSE]
    ELSE [heap |-> [DP_transient_layer_list_transient_at(
                        h, tll, IndexById(h, tll, layer_id))
                       EXCEPT !.ly[transient_at(h, tll, IndexById(h, tll, layer_id))].visible =
                                  visible],
          ok |-> TRUE]

(* The content of the layer at index goes onto the layer below it. *)
layer_merge_down(h, tll, index) ==
    written([DP_transient_layer_list_transient_at(h, tll, index - 1)
                EXCEPT !.ly[transient_at(h, tll, index - 1)].pix =
                           Composite(@, h.ly[h.ll[tll].elems[index]].pix)],
            transient_at(h, tll, index - 1),
            {<<t[1], t[2]>> : t \in h.ly[h.ll[tll].elems[index]].pix})

(* The layer at index leaves the list, merged down first if asked. *)
layer_delete_at(h, tll, index, merge) ==
    DP_layer_decref(
        [(IF merge /\ index > 1 THEN layer_merge_down(h, tll, index) ELSE h)
            EXCEPT !.ll[tll].elems = RemoveAt(@, index)],
        h.ll[tll].elems[index])

DP_transient_layer_list_layer_delete(h, tll, context_id, layer_id, merge) ==
    IF IndexById(h, tll, layer_id) = 0 THEN [heap |-> h, ok |-> FALSE]
    ELSE [heap |-> layer_delete_at(h, tll, IndexById(h, tll, layer_id), merge),
          ok |-> TRUE]

(* The layers named by layer_ids, in that order. *)
reorder_named(h, ll, layer_ids) ==
    [k \in 1 .. Len(layer_ids) |-> h.ll[ll].elems[IndexById(h, ll, layer_ids[k])]]

(* A new transient list of the named layers followed by the others. *)
reorder_list(h, ll, named) ==
    [h EXCEPT !.ll = Append(@, [refcount |-> 1, transient |-> TRUE, freed |-> FALSE,
                                elems |-> named \o SelectSeq(h.ll[ll].elems,
                                    LAMBDA l : \A k \in 1 .. Len(named) : named[k] # l)])]

(* Every element of list ll gains a reference. *)
incref_elems(h, ll) == IncrefLayers(h, h.ll[ll].elems)

(* The layers named by layer_ids first, in that order, then the others;    *)
(* NULL (no list) when an id is unknown.  Result: [heap, tll].             *)
DP_layer_list_layer_reorder(h, ll, layer_ids) ==
    IF \E k \in 1 .. Len(layer_ids) : layer_ids[k] \notin LayerIds(h, ll)
    THEN [heap |-> h, tll |-> NULL]
    ELSE [heap |-> incref_elems(reorder_list(h, ll, reorder_named(h, ll, layer_ids)),
                                Len(h.ll) + 1),
          tll |-> Len(h.ll) + 1]

layer_paint(h, tl, rect, colour) ==
    written([h EXCEPT !.ly[tl].pix =
                Paint(@, rect \cap Rect(0, 0, h.ly[tl].width, h.ly[tl].height), colour)],
            tl, rect \cap Rect(0, 0, h.ly[tl].width, h.ly[tl].height))

(* image: "bad" when the payload does not inflate to width * height        *)
(* pixels, else the colour of the (uniform) decoded image.                 *)
DP_transient_layer_list_put_image(h, tll, context_id, layer_id, blend_mode, x, y, width, height, image) ==
    IF IndexById(h, tll, layer_id) = 0 \/ image = "bad" THEN [heap |-> h, ok |-> FALSE]
    ELSE [heap |-> layer_paint(
                       DP_transient_layer_list_transient_at(
                           h, tll, IndexById(h, tll, layer_id)),
                       transient_at(h, tll, IndexById(h, tll, layer_id)),
                       Rect(x, y, x + width, y + height), image),
          ok |-> TRUE]

DP_transient_layer_list_fill_rect(h, tll, context_id, layer_id, blend_mode, left, top, right, bottom, color) ==
    IF IndexById(h, tll, layer_id) = 0 THEN [heap |-> h, ok |-> FALSE]
    ELSE [heap |-> layer_paint(
                       DP_transient_layer_list_transient_at(
                           h, tll, IndexById(h, tll, layer_id)),
                       transient_at(h, tll, IndexById(h, tll, layer_id)),
                       Rect(left, top, right, bottom), color),
          ok |-> TRUE]

(* The least and the greatest member of a set of numbers. *)
MinOf(vs) == CHOOSE v \in vs : \A u \in vs : v <= u

MaxOf(vs) == CHOOSE v \in vs : \A u \in vs : v >= u

(* Bounding rectangle of a quad <<x1, y1, ..., x4, y4>>: <<x, y, w, h>>. *)
DP_quad_bounds(q) ==
    << MinOf({q[1], q[3], q[5], q[7]}), MinOf({q[2], q[4], q[6], q[8]}),
       (MaxOf({q[1], q[3], q[5], q[7]}) - MinOf({q[1], q[3], q[5], q[7]})) + 1,
       (MaxOf({q[2], q[4], q[6], q[8]}) - MinOf({q[2], q[4], q[6], q[8]})) + 1 >>

DP_rect_size(r) == r[3] * r[4]

(* The pixels of transient layer tl inside src leave it and land moved by  *)
(* (dx, dy).                                                               *)
layer_move(h, tl, src, dx, dy) ==
    written([h EXCEPT !.ly[tl].pix =
                Composite({t \in @ : <<t[1], t[2]>> \notin src},
                          Translate({t \in @ : <<t[1], t[2]>> \in src}, dx, dy,
                                    h.ly[tl].width, h.ly[tl].height))],
            tl,
            {<<t[1], t[2]>> : t \in {u \in h.ly[tl].pix : <<u[1], u[2]>> \in src}}
                \cup {<<t[1] + dx, t[2] + dy>> :
                         t \in {u \in h.ly[tl].pix : <<u[1], u[2]>> \in src}})

(* The selected pixels leave the source rectangle and land at the          *)
(* destination's bounding rectangle.                                       *)
DP_transient_layer_list_region_move(h, tll, context_id, layer_id, src_rect, dst_quad, mask) ==
    IF IndexById(h, tll, layer_id) = 0 THEN [heap |-> h, ok |-> FALSE]
    ELSE [heap |-> layer_move(
                       DP_transient_layer_list_transient_at(
                           h, tll, IndexById(h, tll, layer_id)),
                       transient_at(h, tll, IndexById(h, tll, layer_id)),
                       Rect(src_rect[1], src_rect[2], src_rect[1] + src_rect[3],
                            src_rect[2] + src_rect[4]),
                       DP_quad_bounds(dst_quad)[1] - src_rect[1],
                       DP_quad_bounds(dst_quad)[2] - src_rect[2]),
          ok |-> TRUE]

(* image: "bad" when the payload is no tile, else the tile's colour. *)
DP_tile_new_from_compressed(h, context_id, image) ==
    IF image = "bad" THEN h ELSE DP_tile_new_from_bgra(h, context_id, image)

(* The tile covers the whole of transient layer tl (a layer smaller than   *)
(* one tile), or of its sublayer k when k # 0.                             *)
layer_put_tile(h, tl, k, tile) ==
    IF k = 0
    THEN [h EXCEPT !.ly[tl].pix =
             Paint(@, Rect(0, 0, h.ly[tl].width, h.ly[tl].height), h.tile[tile].pixel),
                   !.ly[tl].tiles =
                       IF DP_tile_total_round(h.ly[tl].width, h.ly[tl].height) = 0 THEN {}
                       ELSE {<<0, <<"tile", tile>>>>}]
    ELSE [h EXCEPT !.ly[tl].subs[k].pix =
             Paint(@, Rect(0, 0, h.ly[tl].width, h.ly[tl].height), h.tile[tile].pixel)]

DP_transient_layer_put_tile(h, tl, tile, sublayer_id) ==
    layer_put_tile(with_sublayer(h, tl, sublayer_id), tl,
                   IF sublayer_id = 0 THEN 0
                   ELSE SublayerIndex(with_sublayer(h, tl, sublayer_id), tl, sublayer_id),
                   tile)

DP_transient_layer_list_put_tile(h, tll, tile, layer_id, sublayer_id, x, y, repeat) ==
    IF IndexById(h, tll, layer_id) = 0 THEN [heap |-> h, ok |-> FALSE]
    ELSE IF x # 0 \/ y # 0 THEN [heap |-> h, ok |-> FALSE]
    ELSE [heap |-> DP_transient_layer_put_tile(
                       DP_transient_layer_list_transient_at(
                           h, tll, IndexById(h, tll, layer_id)),
                       transient_at(h, tll, IndexById(h, tll, layer_id)),
                       tile, sublayer_id),
          ok |-> TRUE]

(* Merges the sublayer at index (0-based) into transient layer tl and      *)
(* removes it from the layer's sublayers.                                  *)
DP_transient_layer_merge_sublayer_at(h, tl, context_id, index) ==
    written([h EXCEPT !.ly[tl].pix = Composite(@, h.ly[tl].subs[index + 1].pix),
                      !.ly[tl].subs = RemoveAt(@, index + 1)],
            tl, {<<t[1], t[2]>> : t \in h.ly[tl].subs[index + 1].pix})

(* ---------------------------- canvas states ---------------------------- *)
allocate_canvas_state(h, transient, width, height) ==
    [h EXCEPT !.cs = Append(@, [refcount |-> 1, transient |-> transient,
                                width |-> width, height |-> height,
                                background_tile |-> NULL, layers |-> NULL,
                                freed |-> FALSE])]

DP_canvas_state_new ==
    [allocate_canvas_state(DP_layer_list_new(EmptyHeap), FALSE, 0, 0)
        EXCEPT !.cs[1].layers = 1]

DP_canvas_state_incref(h, cs) == [h EXCEPT !.cs[cs].refcount = @ + 1]

DP_canvas_state_decref(h, cs) ==
    IF h.cs[cs].refcount = 1
    THEN DP_layer_list_decref(
             DP_tile_decref_nullable(
                 [h EXCEPT !.cs[cs].refcount = 0, !.cs[cs].freed = TRUE],
                 h.cs[cs].background_tile),
             h.cs[cs].layers)
    ELSE [h EXCEPT !.cs[cs].refcount = @ - 1]

(* The address allocate_canvas_state gives the next canvas state. *)
NextCanvasState(h) == Len(h.cs) + 1

(* The new transient canvas state is the last one on the heap. *)
DP_transient_canvas_state_new(h, cs) ==
    [DP_layer_list_incref(
         DP_tile_incref_nullable(
             allocate_canvas_state(h, TRUE, h.cs[cs].width, h.cs[cs].height),
             h.cs[cs].background_tile),
         h.cs[cs].layers)
        EXCEPT !.cs[NextCanvasState(h)].background_tile = h.cs[cs].background_tile,
               !.cs[NextCanvasState(h)].layers = h.cs[cs].layers]

DP_transient_canvas_state_decref(h, tcs) == DP_canvas_state_decref(h, tcs)

(* DP_transient_canvas_state_persist that clears the flag of the canvas    *)
(* state and leaves its layer list as it is.                               *)
DP_transient_canvas_state_persist_shallow(h, tcs) ==
    [h EXCEPT !.cs[tcs].transient = FALSE]

DP_transient_canvas_state_persist(h, tcs) ==
    [(IF DP_layer_list_transient(h, h.cs[tcs].layers)
      THEN DP_transient_layer_list_persist(h, h.cs[tcs].layers)
      ELSE h)
        EXCEPT !.cs[tcs].transient = FALSE]

(* get_transient_layer_list that keeps the reference to the shared list. *)
get_transient_layer_list_kept(h, tcs, reserve) ==
    IF ~DP_layer_list_transient(h, h.cs[tcs].layers)
    THEN [DP_transient_layer_list_new(h, h.cs[tcs].layers, reserve)
             EXCEPT !.cs[tcs].layers = Len(h.ll) + 1]
    ELSE h

(* Leaves the transient layer list in tcs.layers. *)
get_transient_layer_list(h, tcs, reserve) ==
    IF ~DP_layer_list_transient(h, h.cs[tcs].layers)
    THEN DP_layer_list_decref(
             [DP_transient_layer_list_new(h, h.cs[tcs].layers, reserve)
                 EXCEPT !.cs[tcs].layers = Len(h.ll) + 1],
             h.cs[tcs].layers)
    ELSE h

(* The pointer get_transient_layer_list(h, tcs, reserve) returns.  A       *)
(* transient just made from cs shares the layer list of cs, so the same    *)
(* holds with cs in place of tcs and the heap before the transient is made.*)
transient_layers(h, tcs) ==
    IF DP_layer_list_transient(h, h.cs[tcs].layers) THEN h.cs[tcs].layers
    ELSE Len(h.ll) + 1

(* The part of DP_transient_canvas_state_resize after its checks: the new  *)
(* resize_to with the resize of the layer list forgotten. *)
resize_to_size_only(h, tcs, context_id, top, right, bottom, left, width, height) ==
    [h EXCEPT !.cs[tcs].width = width, !.cs[tcs].height = height]

(* size is stored and a non-empty layer list is resized.                   *)
resize_to(h, tcs, context_id, top, right, bottom, left, width, height) ==
    IF DP_layer_list_layer_count(h, h.cs[tcs].layers) > 0
    THEN DP_transient_layer_list_resize(
             [get_transient_layer_list(h, tcs, 0)
                 EXCEPT !.cs[tcs].width = width, !.cs[tcs].height = height],
             transient_layers(h, tcs), context_id, top, right, bottom, left)
    ELSE [h EXCEPT !.cs[tcs].width = width, !.cs[tcs].height = height]

(* Result: [heap, ok, crash].  traps tells whether the build aborts on     *)
(* DP_transient_canvas_state_resize without the check of the new size      *)
(* against 1 and INT16_MAX.                                                *)
DP_transient_canvas_state_resize_unchecked(h, tcs, context_id, top, right, bottom, left, traps) ==
    IF \/ int_neg(top) >= int_add(h.cs[tcs].height, bottom)
       \/ int_neg(left) >= int_add(h.cs[tcs].width, right)
    THEN [heap |-> h, ok |-> FALSE, crash |-> FALSE]
    ELSE [heap |-> resize_to(h, tcs, context_id, top, right, bottom, left,
                             int_add(int_add(h.cs[tcs].width, right), left),
                             int_add(int_add(h.cs[tcs].height, bottom), top)),
          ok |-> TRUE, crash |-> FALSE]

(* signed overflow; otherwise the sums wrap around.                        *)
DP_transient_canvas_state_resize(h, tcs, context_id, top, right, bottom, left, traps) ==
    LET north == int_neg(top)
        west == int_neg(left)
        east == int_add(h.cs[tcs].width, right)
        south == int_add(h.cs[tcs].height, bottom)
    IN IF /\ traps
          /\ \/ top = INT_MIN \/ left = INT_MIN
             \/ int_add_overflows(h.cs[tcs].width, right)
             \/ int_add_overflows(h.cs[tcs].height, bottom)
       THEN [heap |-> h, ok |-> FALSE, crash |-> TRUE]
       ELSE IF north >= south \/ west >= east
       THEN [heap |-> h, ok |-> FALSE, crash |-> FALSE]
       ELSE IF traps /\ (int_add_overflows(east, left) \/ int_add_overflows(south, top))
       THEN [heap |-> h, ok |-> FALSE, crash |-> TRUE]
       ELSE IF \/ int_add(east, left) < 1 \/ int_add(south, top) < 1
               \/ int_add(east, left) > INT16_MAX \/ int_add(south, top) > INT16_MAX
       THEN [heap |-> h, ok |-> FALSE, crash |-> FALSE]
       ELSE [heap |-> resize_to(h, tcs, context_id, top, right, bottom, left,
                                int_add(east, left), int_add(south, top)),
             ok |-> TRUE, crash |-> FALSE]

(***************************************************************************)
(* The message handlers.  Each takes the heap, the input snapshot cs and   *)
(* the message, and yields an Outcome.                                     *)
(***************************************************************************)

(* PersistOrDrop with the release of the transient forgotten on failure. *)
PersistOrDrop_leak(r, tcs) ==
    IF r.ok THEN Outcome(DP_transient_canvas_state_persist(r.heap, tcs), tcs, tcs, FALSE)
    ELSE Outcome(r.heap, NULL, tcs, FALSE)

(* The shared tail of most handlers: persist on success, drop on failure. *)
PersistOrDrop(r, tcs) ==
    IF r.ok THEN Outcome(DP_transient_canvas_state_persist(r.heap, tcs), tcs, tcs, FALSE)
    ELSE Outcome(DP_transient_canvas_state_decref(r.heap, tcs), NULL, tcs, FALSE)

(* TileDecrefPersistOrDrop with the handler's reference to its tile kept. *)
TileDecrefPersistOrDrop_kept(r, tile, tcs) == PersistOrDrop(r, tcs)

(* The same after the handler's reference to its tile is released. *)
TileDecrefPersistOrDrop(r, tile, tcs) ==
    PersistOrDrop([r EXCEPT !.heap = DP_tile_decref_nullable(@, tile)], tcs)

(* The shared head of most handlers: a transient canvas state of cs whose  *)
(* layer list is transient.                                                *)
transient_with_layers(h, cs, reserve) ==
    get_transient_layer_list(DP_transient_canvas_state_new(h, cs), NextCanvasState(h),
                             reserve)

(* The end of handle_canvas_resize; an abort inside the resize leaves the  *)
(* transient behind.                                                       *)
canvas_resize_return(r, tcs) ==
    IF r.crash THEN Outcome(r.heap, NULL, tcs, TRUE) ELSE PersistOrDrop(r, tcs)

(* handle_canvas_resize with right and left passed in each other's place. *)
handle_canvas_resize_swapped(h, cs, context_id, mcr, traps) ==
    canvas_resize_return(
        DP_transient_canvas_state_resize(
            DP_transient_canvas_state_new(h, cs), NextCanvasState(h), context_id,
            mcr.top, mcr.left, mcr.bottom, mcr.right, traps),
        NextCanvasState(h))

handle_canvas_resize(h, cs, context_id, mcr, traps) ==
    canvas_resize_return(
        DP_transient_canvas_state_resize(
            DP_transient_canvas_state_new(h, cs), NextCanvasState(h), context_id,
            mcr.top, mcr.right, mcr.bottom, mcr.left, traps),
        NextCanvasState(h))

(* The fill tile handle_layer_create makes: NULL for a blank fill. *)
layer_create_tile(h, mlc) == IF mlc.fill = BLANK THEN NULL ELSE Len(h.tile) + 1

handle_layer_create(h, cs, context_id, mlc) ==
    TileDecrefPersistOrDrop(
        DP_transient_layer_list_layer_create(
            get_transient_layer_list(
                IF mlc.fill = BLANK THEN DP_transient_canvas_state_new(h, cs)
                ELSE DP_tile_new_from_bgra(DP_transient_canvas_state_new(h, cs),
                                           context_id, mlc.fill),
                NextCanvasState(h), 1),
            transient_layers(h, cs), mlc.layer_id, mlc.source_id,
            layer_create_tile(h, mlc), mlc.insert, mlc.copy, h.cs[cs].width,
            h.cs[cs].height, mlc.title),
        layer_create_tile(h, mlc), NextCanvasState(h))

handle_layer_attr(h, cs, mla) ==
    PersistOrDrop(DP_transient_layer_list_layer_attr(
                      transient_with_layers(h, cs, 0), transient_layers(h, cs), mla.layer_id,
                      mla.sublayer_id, mla.opacity, mla.blend_mode, mla.censored,
                      mla.fixed),
                  NextCanvasState(h))

(* The end of handle_layer_order: the reordered list is stored unchecked   *)
(* and the transient persisted.  A reorder that yields no list leaves NULL *)
(* in the transient's layers; persisting then reads through the null       *)
(* pointer and the process dies.                                           *)
layer_order_store(r, tcs) ==
    IF r.tll = NULL
    THEN Outcome([r.heap EXCEPT !.cs[tcs].layers = NULL], NULL, tcs, TRUE)
    ELSE Outcome(DP_transient_canvas_state_persist(
                     [r.heap EXCEPT !.cs[tcs].layers = r.tll], tcs),
                 tcs, tcs, FALSE)

(* The heap DP_layer_list_layer_reorder is called in: the transient made   *)
(* and its reference to the layer list dropped.                            *)
layer_order_released(h, cs) ==
    DP_layer_list_decref(DP_transient_canvas_state_new(h, cs), h.cs[cs].layers)

(* handle_layer_order that keeps the transient's reference to the list. *)
handle_layer_order_kept(h, cs, mlo) ==
    layer_order_store(
        DP_layer_list_layer_reorder(DP_transient_canvas_state_new(h, cs), h.cs[cs].layers,
                                    mlo.layer_ids),
        NextCanvasState(h))

handle_layer_order(h, cs, mlo) ==
    layer_order_store(
        DP_layer_list_layer_reorder(layer_order_released(h, cs), h.cs[cs].layers,
                                    mlo.layer_ids),
        NextCanvasState(h))

handle_layer_retitle(h, cs, mlr) ==
    PersistOrDrop(DP_transient_layer_list_layer_retitle(
                      transient_with_layers(h, cs, 0), transient_layers(h, cs), mlr.layer_id,
                      mlr.title),
                  NextCanvasState(h))

(* handle_layer_delete with the context id and the layer id passed in each *)
(* other's place.                                                          *)
handle_layer_delete_swapped(h, cs, context_id, mld) ==
    PersistOrDrop(DP_transient_layer_list_layer_delete(
                      transient_with_layers(h, cs, 0), transient_layers(h, cs),
                      mld.layer_id, context_id, mld.merge),
                  NextCanvasState(h))

handle_layer_delete(h, cs, context_id, mld) ==
    PersistOrDrop(DP_transient_layer_list_layer_delete(
                      transient_with_layers(h, cs, 0), transient_layers(h, cs), context_id,
                      mld.layer_id, mld.merge),
                  NextCanvasState(h))

handle_layer_visibility(h, cs, mlv) ==
    PersistOrDrop(DP_transient_layer_list_layer_visibility(
                      transient_with_layers(h, cs, 0), transient_layers(h, cs), mlv.layer_id,
                      mlv.visible),
                  NextCanvasState(h))

handle_put_image(h, cs, context_id, mpi) ==
    IF ~DP_blend_mode_exists(mpi.blend_mode) THEN Outcome(h, NULL, NULL, FALSE)
    ELSE PersistOrDrop(DP_transient_layer_list_put_image(
                           transient_with_layers(h, cs, 0), transient_layers(h, cs), context_id,
                           mpi.layer_id, mpi.blend_mode, mpi.x, mpi.y, mpi.width,
                           mpi.height, mpi.image),
                       NextCanvasState(h))

(* The rectangle handle_fill_rect passes on: <<left, top, right, bottom>>. *)
fill_rect_area(h, cs, mfr) ==
    << DP_max_int(mfr.x, 0), DP_max_int(mfr.y, 0),
       DP_min_int(int_add(mfr.x, mfr.width), h.cs[cs].width),
       DP_min_int(int_add(mfr.y, mfr.height), h.cs[cs].height) >>

fill_rect_in(h, cs, context_id, mfr, a) ==
    IF a[1] >= a[3] \/ a[2] >= a[4] THEN Outcome(h, NULL, NULL, FALSE)
    ELSE PersistOrDrop(DP_transient_layer_list_fill_rect(
                           transient_with_layers(h, cs, 0), transient_layers(h, cs), context_id,
                           mfr.layer_id, mfr.blend_mode, a[1], a[2], a[3], a[4],
                           mfr.color),
                       NextCanvasState(h))

(* x + width and y + height are sums of int: a build that traps on signed  *)
(* handle_fill_rect without the check that the blend mode is one a brush   *)
(* may use.                                                                *)
handle_fill_rect_any_mode(h, cs, context_id, mfr, traps) ==
    IF ~DP_blend_mode_exists(mfr.blend_mode) THEN Outcome(h, NULL, NULL, FALSE)
    ELSE IF /\ traps
            /\ \/ int_add_overflows(mfr.x, mfr.width)
               \/ int_add_overflows(mfr.y, mfr.height)
    THEN Outcome(h, NULL, NULL, TRUE)
    ELSE fill_rect_in(h, cs, context_id, mfr, fill_rect_area(h, cs, mfr))

(* overflow aborts there, in the others the sum wraps around.              *)
handle_fill_rect(h, cs, context_id, mfr, traps) ==
    IF ~DP_blend_mode_exists(mfr.blend_mode) THEN Outcome(h, NULL, NULL, FALSE)
    ELSE IF ~DP_blend_mode_valid_for_brush(mfr.blend_mode) THEN Outcome(h, NULL, NULL, FALSE)
    ELSE IF /\ traps
            /\ \/ int_add_overflows(mfr.x, mfr.width)
               \/ int_add_overflows(mfr.y, mfr.height)
    THEN Outcome(h, NULL, NULL, TRUE)
    ELSE fill_rect_in(h, cs, context_id, mfr, fill_rect_area(h, cs, mfr))

(* The mask image of a RegionMove, decoded on the heap; images are kept    *)
(* with the number of times they were freed.                               *)
mask_decoded(h, mrm) ==
    IF mrm.mask = "ok" THEN [h EXCEPT !.img = Append(@, [freed |-> FALSE, frees |-> 0])]
    ELSE h

(* The pointer to it, NULL when the message has no mask. *)
region_move_mask(h, mrm) == IF mrm.mask = "ok" THEN Len(h.img) + 1 ELSE NULL

DP_free(h, img) ==
    IF img = NULL THEN h ELSE [h EXCEPT !.img[img].freed = TRUE, !.img[img].frees = @ + 1]

mask_freed(r, mask) == [r EXCEPT !.heap = DP_free(@, mask)]

(* The part of handle_region_move after its checks; mh is the heap that    *)
(* holds the decoded mask.                                                 *)
region_move_with(mh, cs, context_id, mrm, mask) ==
    PersistOrDrop(mask_freed(DP_transient_layer_list_region_move(
                                 transient_with_layers(mh, cs, 0), transient_layers(mh, cs),
                                 context_id, mrm.layer_id, mrm.src, mrm.dst, mrm.mask),
                             mask),
                  NextCanvasState(mh))

(* handle_region_move with the size check off by one: a destination as     *)
(* large as the limit is refused too.                                      *)
handle_region_move_strict(h, cs, context_id, mrm) ==
    IF mrm.src[3] <= 0 \/ mrm.src[4] <= 0 THEN Outcome(h, NULL, NULL, FALSE)
    ELSE IF mrm.mask = "bad" THEN Outcome(h, NULL, NULL, FALSE)
    ELSE IF DP_rect_size(DP_quad_bounds(mrm.dst))
                >= (h.cs[cs].width + 1) * (h.cs[cs].height + 1)
    THEN Outcome(mask_decoded(h, mrm), NULL, NULL, FALSE)
    ELSE region_move_with(mask_decoded(h, mrm), cs, context_id, mrm, region_move_mask(h, mrm))

(* mask: "none" (no mask sent), "bad" (does not decode) or "ok". *)
handle_region_move(h, cs, context_id, mrm) ==
    IF mrm.src[3] <= 0 \/ mrm.src[4] <= 0 THEN Outcome(h, NULL, NULL, FALSE)
    ELSE IF mrm.mask = "bad" THEN Outcome(h, NULL, NULL, FALSE)
    ELSE IF DP_rect_size(DP_quad_bounds(mrm.dst))
                > (h.cs[cs].width + 1) * (h.cs[cs].height + 1)
    THEN Outcome(mask_decoded(h, mrm), NULL, NULL, FALSE)
    ELSE region_move_with(mask_decoded(h, mrm), cs, context_id, mrm, region_move_mask(h, mrm))

(* The tile a PutTile or CanvasBackground payload yields, NULL when the    *)
(* payload does not decode, and the heap holding it.                       *)
payload_heap(h, context_id, msg) ==
    IF msg.is_color THEN DP_tile_new_from_bgra(h, context_id, msg.color)
    ELSE DP_tile_new_from_compressed(h, context_id, msg.image)

payload_tile(h, msg) ==
    IF msg.is_color \/ msg.image # "bad" THEN Len(h.tile) + 1 ELSE NULL

(* th is the heap that holds the decoded tile. *)
put_tile_on(th, cs, mpt, tile) ==
    TileDecrefPersistOrDrop(
        DP_transient_layer_list_put_tile(
            transient_with_layers(th, cs, 0), transient_layers(th, cs), tile,
            mpt.layer_id, mpt.sublayer_id, mpt.x, mpt.y, mpt.repeat),
        tile, NextCanvasState(th))

handle_put_tile(h, cs, context_id, mpt) ==
    IF payload_tile(h, mpt) = NULL THEN Outcome(h, NULL, NULL, FALSE)
    ELSE put_tile_on(payload_heap(h, context_id, mpt), cs, mpt, payload_tile(h, mpt))

(* h is the heap after the transient tcs was made; the transient takes     *)
(* canvas_background_set with the assignment of the new tile left out: the *)
(* old tile is released and stays referenced.                              *)
canvas_background_set_unassigned(h, tcs, tile) ==
    Outcome(DP_transient_canvas_state_persist(
                DP_tile_decref_nullable(h, h.cs[tcs].background_tile), tcs),
            tcs, tcs, FALSE)

(* over the handler's reference to the tile.                               *)
canvas_background_set(h, tcs, tile) ==
    Outcome(DP_transient_canvas_state_persist(
                [DP_tile_decref_nullable(h, h.cs[tcs].background_tile)
                    EXCEPT !.cs[tcs].background_tile = tile],
                tcs),
            tcs, tcs, FALSE)

handle_canvas_background(h, cs, context_id, mcb) ==
    IF payload_tile(h, mcb) = NULL THEN Outcome(h, NULL, NULL, FALSE)
    ELSE canvas_background_set(
             DP_transient_canvas_state_new(payload_heap(h, context_id, mcb), cs),
             NextCanvasState(h), payload_tile(h, mcb))

(* The loops of handle_pen_up.  s holds the handler's locals: heap, tcs,   *)
(* ll, tll, tl, sll (the layer whose sublayers are being walked),          *)
(* sublayer_count, j and whether an assertion aborted the process.         *)
(* asserts tells whether the build checks DP_ASSERT.                       *)

(* The branch on tcs: with a transient canvas state at hand tll is ll     *)
(* under a cast; otherwise the transient and its transient layer list are  *)
(* made, and ll is assigned to itself, which leaves it the input           *)
(* snapshot's list.                                                        *)
pen_up_transient_list(s, cs) ==
    IF s.tcs # NULL THEN [s EXCEPT !.tll = s.ll]
    ELSE [s EXCEPT !.heap = transient_with_layers(s.heap, cs, 0),
                   !.tcs = NextCanvasState(s.heap),
                   !.tll = transient_layers(s.heap, cs),
                   !.ll = s.ll]

(* tl = DP_transient_layer_list_transient_at(tll, i), after which the     *)
(* sublayers walked are those of tl.  A build that checks assertions       *)
(* aborts in transient_at when tll is not transient.                       *)
pen_up_transient_layer(s, i, asserts) ==
    IF asserts /\ ~DP_layer_list_transient(s.heap, s.tll) THEN [s EXCEPT !.crash = TRUE]
    ELSE [s EXCEPT !.heap = DP_transient_layer_list_transient_at(@, s.tll, i + 1),
                   !.tl = transient_at(s.heap, s.tll, i + 1),
                   !.sll = transient_at(s.heap, s.tll, i + 1)]

(* The merge of sublayer j into tl, the decrements of sublayer_count and j *)
(* and the loop's increment of j.                                          *)
pen_up_merge(s, context_id) ==
    IF s.crash THEN s
    ELSE [s EXCEPT !.heap = DP_transient_layer_merge_sublayer_at(@, s.tl, context_id, s.j),
                   !.sublayer_count = @ - 1, !.j = (@ - 1) + 1]

RECURSIVE pen_up_sublayers(_, _, _, _, _)
pen_up_sublayers(s, cs, context_id, i, asserts) ==
    IF s.crash \/ s.j >= s.sublayer_count THEN s
    ELSE IF s.heap.ly[s.sll].subs[s.j + 1].id # context_id
    THEN pen_up_sublayers([s EXCEPT !.j = @ + 1], cs, context_id, i, asserts)
    ELSE IF s.tl # NULL
    THEN pen_up_sublayers(pen_up_merge(s, context_id), cs, context_id, i, asserts)
    ELSE pen_up_sublayers(
             pen_up_merge(pen_up_transient_layer(pen_up_transient_list(s, cs), i, asserts),
                          context_id),
             cs, context_id, i, asserts)

(* The head of the outer loop's body: sll and sublayer_count of layer i of *)
(* ll, tl = NULL, j = 0.                                                   *)
pen_up_layer(s, i) ==
    [s EXCEPT !.sll = s.heap.ll[s.ll].elems[i + 1], !.tl = NULL, !.j = 0,
              !.sublayer_count = Len(s.heap.ly[s.heap.ll[s.ll].elems[i + 1]].subs)]

RECURSIVE pen_up_layers(_, _, _, _, _, _)
pen_up_layers(s, cs, context_id, i, layer_count, asserts) ==
    IF s.crash \/ i >= layer_count THEN s
    ELSE pen_up_layers(pen_up_sublayers(pen_up_layer(s, i), cs, context_id, i, asserts),
                       cs, context_id, i + 1, layer_count, asserts)

(* What handle_pen_up returns once its loops have run: the persisted       *)
(* pen_up_return of an eager PenUp: a transient is made and persisted even *)
(* when the loops found nothing to merge.                                  *)
pen_up_return_eager(s, cs) ==
    IF s.crash THEN Outcome(s.heap, NULL, s.tcs, TRUE)
    ELSE IF s.tcs # NULL
    THEN Outcome(DP_transient_canvas_state_persist(s.heap, s.tcs), s.tcs, s.tcs, FALSE)
    ELSE Outcome(DP_transient_canvas_state_persist(
                     DP_transient_canvas_state_new(s.heap, cs), NextCanvasState(s.heap)),
                 NextCanvasState(s.heap), NextCanvasState(s.heap), FALSE)

(* transient if one was made, else the input snapshot with a new reference.*)
pen_up_return(s, cs) ==
    IF s.crash THEN Outcome(s.heap, NULL, s.tcs, TRUE)
    ELSE IF s.tcs # NULL
    THEN Outcome(DP_transient_canvas_state_persist(s.heap, s.tcs), s.tcs, s.tcs, FALSE)
    ELSE Outcome(DP_canvas_state_incref(s.heap, cs), cs, NULL, FALSE)

handle_pen_up(h, cs, context_id, asserts) ==
    pen_up_return(
        pen_up_layers([heap |-> h, tcs |-> NULL, ll |-> h.cs[cs].layers, tll |-> NULL,
                       tl |-> NULL, sll |-> NULL, sublayer_count |-> 0, j |-> 0,
                       crash |-> FALSE],
                      cs, context_id, 0,
                      DP_layer_list_layer_count(h, h.cs[cs].layers), asserts),
        cs)

(* The parameters handle_draw_dabs derives from the message:               *)
(* draw_dabs_params with the two blend modes of an indirect stroke in each *)
(* other's place: the sublayer gets NORMAL, the dabs the requested mode.   *)
draw_dabs_params_swapped(context_id, mdd) ==
    IF mdd.indirect
    THEN [sublayer_id |-> context_id, sublayer_opacity |-> mdd.color[1] \div 256,
          sublayer_blend_mode |-> "NORMAL", dabs_blend_mode |-> mdd.blend_mode]
    ELSE [sublayer_id |-> 0, sublayer_opacity |-> -1, sublayer_blend_mode |-> "none",
          dabs_blend_mode |-> mdd.blend_mode]

(* [sublayer_id, sublayer_opacity, sublayer_blend_mode, dabs_blend_mode].  *)
draw_dabs_params(context_id, mdd) ==
    IF mdd.indirect
    THEN [sublayer_id |-> context_id, sublayer_opacity |-> mdd.color[1] \div 256,
          sublayer_blend_mode |-> mdd.blend_mode, dabs_blend_mode |-> "NORMAL"]
    ELSE [sublayer_id |-> 0, sublayer_opacity |-> -1, sublayer_blend_mode |-> "none",
          dabs_blend_mode |-> mdd.blend_mode]

draw_dabs_with(h, cs, mdd, p) ==
    PersistOrDrop(DP_transient_layer_list_draw_dabs(
                      transient_with_layers(h, cs, 0), transient_layers(h, cs),
                      mdd.layer_id, p.sublayer_id, p.sublayer_blend_mode,
                      p.sublayer_opacity,
                      [x |-> mdd.x, y |-> mdd.y, color |-> mdd.color,
                       blend_mode |-> p.dabs_blend_mode, dabs |-> mdd.dabs]),
                  NextCanvasState(h))

(* handle_draw_dabs without the early return for a message with no dabs. *)
handle_draw_dabs_no_fast_path(h, cs, context_id, mdd) ==
    IF ~DP_blend_mode_exists(mdd.blend_mode) THEN Outcome(h, NULL, NULL, FALSE)
    ELSE IF ~DP_blend_mode_valid_for_brush(mdd.blend_mode) THEN Outcome(h, NULL, NULL, FALSE)
    ELSE draw_dabs_with(h, cs, mdd, draw_dabs_params(context_id, mdd))

handle_draw_dabs(h, cs, context_id, mdd) ==
    IF ~DP_blend_mode_exists(mdd.blend_mode) THEN Outcome(h, NULL, NULL, FALSE)
    ELSE IF ~DP_blend_mode_valid_for_brush(mdd.blend_mode) THEN Outcome(h, NULL, NULL, FALSE)
    ELSE IF Len(mdd.dabs) < 1 THEN Outcome(DP_canvas_state_incref(h, cs), cs, NULL, FALSE)
    ELSE draw_dabs_with(h, cs, mdd, draw_dabs_params(context_id, mdd))

(* asserts and traps describe the build: whether DP_ASSERT is checked and  *)
(* whether signed overflow aborts.                                         *)
DP_canvas_state_handle(h, cs, msg, asserts, traps) ==
    CASE msg.type = "CANVAS_RESIZE" -> handle_canvas_resize(h, cs, msg.context_id, msg, traps)
      [] msg.type = "LAYER_CREATE" -> handle_layer_create(h, cs, msg.context_id, msg)
      [] msg.type = "LAYER_ATTR" -> handle_layer_attr(h, cs, msg)
      [] msg.type = "LAYER_ORDER" -> handle_layer_order(h, cs, msg)
      [] msg.type = "LAYER_RETITLE" -> handle_layer_retitle(h, cs, msg)
      [] msg.type = "LAYER_DELETE" -> handle_layer_delete(h, cs, msg.context_id, msg)
      [] msg.type = "LAYER_VISIBILITY" -> handle_layer_visibility(h, cs, msg)
      [] msg.type = "PUT_IMAGE" -> handle_put_image(h, cs, msg.context_id, msg)
      [] msg.type = "FILL_RECT" -> handle_fill_rect(h, cs, msg.context_id, msg, traps)
      [] msg.type = "REGION_MOVE" -> handle_region_move(h, cs, msg.context_id, msg)
      [] msg.type = "PUT_TILE" -> handle_put_tile(h, cs, msg.context_id, msg)
      [] msg.type = "CANVAS_BACKGROUND" ->
             handle_canvas_background(h, cs, msg.context_id, msg)
      [] msg.type = "PEN_UP" -> handle_pen_up(h, cs, msg.context_id, asserts)
      [] msg.type \in {"DRAW_DABS_CLASSIC", "DRAW_DABS_PIXEL", "DRAW_DABS_PIXEL_SQUARE"} ->
             handle_draw_dabs(h, cs, msg.context_id, msg)
      [] OTHER -> Outcome(h, NULL, NULL, FALSE)

(***************************************************************************)
(* The command stream.  A machine state is [heap, cur, log, pre, crashed]: *)
(* cur is the snapshot the next message is applied to, pre is the heap as  *)
(* it was before the last message, log records every call.                 *)
(***************************************************************************)
Called(m, msg, r) ==
    [heap |-> r.heap,
     cur |-> IF r.ret # NULL THEN r.ret ELSE m.cur,
     log |-> Append(m.log, [msg |-> msg, input |-> m.cur, ret |-> r.ret,
                            tcs |-> r.tcs, crash |-> r.crash]),
     pre |-> m.heap,
     crashed |-> r.crash]

Apply(m, msg, asserts, traps) ==
    Called(m, msg, DP_canvas_state_handle(m.heap, m.cur, msg, asserts, traps))

RECURSIVE Run(_, _)
Run(m, msgs) ==
    IF m.crashed \/ msgs = <<>> THEN m ELSE Run(Apply(m, Head(msgs), FALSE, FALSE), Tail(msgs))

Fresh == [heap |-> DP_canvas_state_new, cur |-> 1, log |-> <<>>,
          pre |-> DP_canvas_state_new, crashed |-> FALSE]

RED == <<65535, 255>>
HALF == <<33023, 0>>

(* ------------------------------ messages ------------------------------- *)
MsgCanvasResize(top, right, bottom, left) ==
    [type |-> "CANVAS_RESIZE", context_id |-> 1, top |-> top, right |-> right,
     bottom |-> bottom, left |-> left]

MsgLayerCreate(layer_id, source_id, fill, insert, copy) ==
    [type |-> "LAYER_CREATE", context_id |-> 1, layer_id |-> layer_id,
     source_id |-> source_id, fill |-> fill, insert |-> insert, copy |-> copy,
     title |-> "t"]

MsgLayerAttr(layer_id, sublayer_id) ==
    [type |-> "LAYER_ATTR", context_id |-> 1, layer_id |-> layer_id,
     sublayer_id |-> sublayer_id, opacity |-> 128, blend_mode |-> "MULTIPLY",
     censored |-> TRUE, fixed |-> FALSE]

MsgLayerOrder(layer_ids) ==
    [type |-> "LAYER_ORDER", context_id |-> 1, layer_ids |-> layer_ids]

MsgLayerRetitle(layer_id) ==
    [type |-> "LAYER_RETITLE", context_id |-> 1, layer_id |-> layer_id, title |-> "u"]

MsgLayerDelete(layer_id, merge) ==
    [type |-> "LAYER_DELETE", context_id |-> 1, layer_id |-> layer_id, merge |-> merge]

MsgLayerVisibility(layer_id) ==
    [type |-> "LAYER_VISIBILITY", context_id |-> 1, layer_id |-> layer_id,
     visible |-> FALSE]

MsgPutImage(layer_id, blend_mode, image) ==
    [type |-> "PUT_IMAGE", context_id |-> 1, layer_id |-> layer_id,
     blend_mode |-> blend_mode, x |-> 0, y |-> 0, width |-> 1, height |-> 1,
     image |-> image]

MsgFillRect(layer_id, blend_mode, x, y, width, height) ==
    [type |-> "FILL_RECT", context_id |-> 1, layer_id |-> layer_id,
     blend_mode |-> blend_mode, x |-> x, y |-> y, width |-> width, height |-> height,
     color |-> RED]

MsgRegionMove(layer_id, src, dst, mask) ==
    [type |-> "REGION_MOVE", context_id |-> 1, layer_id |-> layer_id, src |-> src,
     dst |-> dst, mask |-> mask]

MsgPutTile(layer_id, sublayer_id, is_color, image) ==
    [type |-> "PUT_TILE", context_id |-> 1, layer_id |-> layer_id,
     sublayer_id |-> sublayer_id, x |-> 0, y |-> 0, repeat |-> 0,
     is_color |-> is_color, color |-> RED, image |-> image]

MsgCanvasBackground(is_color, image) ==
    [type |-> "CANVAS_BACKGROUND", context_id |-> 1, is_color |-> is_color,
     color |-> HALF, image |-> image]

MsgPenUp(context_id) == [type |-> "PEN_UP", context_id |-> context_id]

MsgDrawDabs(type, context_id, layer_id, blend_mode, indirect, color, x, y, dabs) ==
    [type |-> type, context_id |-> context_id, layer_id |-> layer_id,
     blend_mode |-> blend_mode, indirect |-> indirect, color |-> color,
     x |-> x, y |-> y, dabs |-> dabs]

(* A session that ends with two layers each holding a stroke in progress   *)
(* (an indirect-mode sublayer) of user 1.  Behaviours start after one of   *)
(* its prefixes.                                                           *)
History ==
    << MsgCanvasResize(0, 2, 2, 0),
       MsgCanvasBackground(TRUE, "bad"),
       MsgLayerCreate(1, 0, BLANK, FALSE, FALSE),
       MsgDrawDabs("DRAW_DABS_PIXEL", 1, 1, "NORMAL", FALSE, RED, 1, 1, << <<0, 0>> >>),
       MsgLayerCreate(2, 0, BLANK, FALSE, FALSE),
       MsgDrawDabs("DRAW_DABS_CLASSIC", 1, 1, "MULTIPLY", TRUE, HALF, 0, 0, << <<0, 0>> >>),
       MsgDrawDabs("DRAW_DABS_CLASSIC", 1, 2, "MULTIPLY", TRUE, HALF, 1, 0, << <<0, 0>> >>) >>

Prefixes == {0, 4, 7}

ResizeArgs ==
    { <<0, 1, 1, 0>>, <<0, -1, -1, 0>>, <<1, 0, 0, 1>>, <<-1, 0, 0, -1>>,
      <<0, 0, 0, 0>>, <<0, -2, 0, 0>>, <<0, 0, -3, 0>> }

LayerCreateArgs ==
    { <<3, 0, BLANK, FALSE, FALSE>>, <<3, 1, RED, TRUE, FALSE>>, <<3, 1, BLANK, FALSE, TRUE>>,
      <<1, 0, BLANK, FALSE, FALSE>>, <<3, 9, RED, FALSE, TRUE>>, <<0, 0, BLANK, FALSE, FALSE>> }

FillRectArgs ==
    { <<1, "NORMAL", 0, 0, 1, 1>>, <<1, "NORMAL", 5, 5, 1, 1>>,
      <<1, "REPLACE", 0, 0, 1, 1>>, <<9, "NORMAL", -1, -1, 9, 9>>,
      <<1, "NORMAL", -1, 1, 2, 9>>, <<1, "NORMAL", 0, 0, 0, 1>>,
      <<1, "NORMAL", -3, 0, 3, 1>>, <<1, "NORMAL", INT_MAX, 0, 1, 1>>,
      <<1, "NORMAL", 1, 0, INT_MAX, 1>>, <<1, "BOGUS", 0, 0, 1, 1>> }

RegionMoveArgs ==
    { <<1, <<1, 1, 1, 1>>, <<0, 0, 0, 0, 0, 0, 0, 0>>, "ok">>,
      <<9, <<0, 0, 1, 1>>, <<0, 0, 1, 0, 1, 1, 0, 1>>, "none">>,
      <<1, <<0, 0, 0, 1>>, <<0, 0, 0, 0, 0, 0, 0, 0>>, "none">>,
      <<1, <<0, 0, 1, 1>>, <<0, 0, 0, 0, 0, 0, 0, 0>>, "bad">>,
      <<1, <<0, 0, 1, 1>>, <<0, 0, 9, 0, 9, 9, 0, 9>>, "ok">>,
      <<1, <<0, 0, 1, 1>>, <<0, 0, 2, 0, 2, 2, 0, 2>>, "none">>,
      <<1, <<0, 0, 1, 1>>, <<0, 0, 3, 0, 3, 2, 0, 2>>, "none">> }

DrawDabsArgs ==
    { <<"DRAW_DABS_CLASSIC", 1, "NORMAL", FALSE, <<>>, RED>>,
      <<"DRAW_DABS_PIXEL", 1, "MULTIPLY", TRUE, <<>>, RED>>,
      <<"DRAW_DABS_PIXEL_SQUARE", 9, "NORMAL", FALSE, <<>>, RED>>,
      <<"DRAW_DABS_PIXEL", 1, "BOGUS", FALSE, <<>>, RED>>,
      <<"DRAW_DABS_CLASSIC", 1, "REPLACE", TRUE, <<>>, RED>>,
      <<"DRAW_DABS_CLASSIC", 1, "NORMAL", TRUE, << <<0, 0>> >>, RED>>,
      <<"DRAW_DABS_PIXEL_SQUARE", 2, "NORMAL", FALSE, << <<0, 0>>, <<1, 0>> >>, RED>>,
      <<"DRAW_DABS_PIXEL", 9, "NORMAL", FALSE, << <<0, 0>> >>, RED>>,
      <<"DRAW_DABS_PIXEL", 1, "REPLACE", FALSE, << <<0, 0>> >>, RED>>,
      <<"DRAW_DABS_PIXEL", 2, "MULTIPLY", TRUE, << <<1, 1>> >>, HALF>>,
      <<"DRAW_DABS_CLASSIC", 1, "MULTIPLY", FALSE, << <<1, 0>> >>, HALF>> }

(* ------------------------------- actions ------------------------------- *)
(* The threads that hold references to the current snapshot.  threads[t]   *)
(* tells where thread t is in a call of DP_canvas_state_incref or          *)
(* DP_canvas_state_decref and how many references it owns.  The command    *)
(* stream is handled by one thread and leaves them alone.                  *)
NumThreads == 3

Threads == 1 .. NumThreads

NoCalls == [t \in Threads |-> [pc |-> "idle", owned |-> 0]]

(* The canvas diff an observer of the snapshots keeps: the tile grid, the   *)
(* reserved length of tile_changes and its entries (entry i + 1 is         *)
(* tile_changes[i]; the entries from count on are left over from earlier   *)
(* uses).                                                                  *)
DP_canvas_diff_new ==
    [count |-> 0, xtiles |-> 0, ytiles |-> 0, tile_changes_reserved |-> 0,
     tile_changes |-> <<>>, layer_props_changed |-> FALSE]

(* What the last call of an observer was, what it was given and what it    *)
(* returned or called back; the command stream leaves it alone.            *)
NoView == [op |-> "none"]

(* The process is alive and the bound on the number of calls is not spent. *)
Ready == ~crashed /\ steps < MaxSteps

(* One call of DP_canvas_state_handle on the current snapshot. *)
Handle(msg, asserts, traps) ==
    \E m \in {Apply([heap |-> heap, cur |-> cur, log |-> log, pre |-> pre,
                      crashed |-> crashed], msg, asserts, traps)} :
        /\ heap' = m.heap
        /\ cur' = m.cur
        /\ log' = m.log
        /\ pre' = m.pre
        /\ crashed' = m.crashed
        /\ steps' = steps + 1
        /\ UNCHANGED <<threads, diff, view>>

CanvasResize ==
    /\ Ready
    /\ \E a \in ResizeArgs : Handle(MsgCanvasResize(a[1], a[2], a[3], a[4]), FALSE, FALSE)

LayerCreate ==
    /\ Ready
    /\ \E a \in LayerCreateArgs :
           Handle(MsgLayerCreate(a[1], a[2], a[3], a[4], a[5]), FALSE, FALSE)

LayerAttr ==
    /\ Ready
    /\ \E a \in {<<1, 0>>, <<1, 1>>, <<9, 0>>} : Handle(MsgLayerAttr(a[1], a[2]), FALSE, FALSE)

LayerOrder ==
    /\ Ready
    /\ \E ids \in {<<2, 1>>, <<1>>} : Handle(MsgLayerOrder(ids), FALSE, FALSE)

LayerRetitle ==
    /\ Ready
    /\ \E layer_id \in {1, 9} : Handle(MsgLayerRetitle(layer_id), FALSE, FALSE)

LayerDelete ==
    /\ Ready
    /\ \E a \in {<<1, FALSE>>, <<2, TRUE>>, <<3, FALSE>>} :
           Handle(MsgLayerDelete(a[1], a[2]), FALSE, FALSE)

LayerVisibility ==
    /\ Ready
    /\ \E layer_id \in {1, 9} : Handle(MsgLayerVisibility(layer_id), FALSE, FALSE)

PutImage ==
    /\ Ready
    /\ \E a \in {<<1, "NORMAL", RED>>, <<1, "BOGUS", RED>>, <<9, "NORMAL", RED>>,
                 <<1, "REPLACE", "bad">>} :
           Handle(MsgPutImage(a[1], a[2], a[3]), FALSE, FALSE)

FillRect ==
    /\ Ready
    /\ \E a \in FillRectArgs, traps \in BOOLEAN :
           Handle(MsgFillRect(a[1], a[2], a[3], a[4], a[5], a[6]), FALSE, traps)

RegionMove ==
    /\ Ready
    /\ \E a \in RegionMoveArgs : Handle(MsgRegionMove(a[1], a[2], a[3], a[4]), FALSE, FALSE)

PutTile ==
    /\ Ready
    /\ \E a \in {<<1, 0, TRUE, "bad">>, <<1, 2, FALSE, HALF>>, <<1, 0, FALSE, "bad">>,
                 <<9, 0, TRUE, "bad">>} :
           Handle(MsgPutTile(a[1], a[2], a[3], a[4]), FALSE, FALSE)

CanvasBackground ==
    /\ Ready
    /\ \E a \in {<<TRUE, "bad">>, <<FALSE, "bad">>, <<FALSE, RED>>} :
           Handle(MsgCanvasBackground(a[1], a[2]), FALSE, FALSE)

PenUp ==
    /\ Ready
    /\ \E context_id \in {1, 2}, asserts \in BOOLEAN : Handle(MsgPenUp(context_id), asserts, FALSE)

DrawDabs ==
    /\ Ready
    /\ \E a \in DrawDabsArgs :
           Handle(MsgDrawDabs(a[1], 1, a[2], a[3], a[4], a[6], 0, 0, a[5]), FALSE, FALSE)

Unhandled ==
    /\ Ready
    /\ Handle([type |-> "CHAT", context_id |-> 1], FALSE, FALSE)

Init ==
    \E k \in Prefixes :
        \E m \in {Run(Fresh, SubSeq(History, 1, k))} :
            /\ heap = m.heap
            /\ cur = m.cur
            /\ log = m.log
            /\ pre = m.pre
            /\ crashed = m.crashed
            /\ steps = 0
            /\ threads = NoCalls
            /\ diff = DP_canvas_diff_new
            /\ view = NoView

Next ==
    \/ CanvasResize
    \/ LayerCreate
    \/ LayerAttr
    \/ LayerOrder
    \/ LayerRetitle
    \/ LayerDelete
    \/ LayerVisibility
    \/ PutImage
    \/ FillRect
    \/ RegionMove
    \/ PutTile
    \/ CanvasBackground
    \/ PenUp
    \/ DrawDabs
    \/ Unhandled

Spec == Init /\ [][Next]_vars

(***************************************************************************)
(* Resizes with border widths from the whole range of int, on canvases     *)
(* without layers of every size class.                                     *)
(***************************************************************************)
MaxResizes == 1

WideArgs == {-INT_MAX, -1, 0, 1, INT_MAX}

TallArgs == {-1, 0, INT_MAX}

ResizeSeeds ==
    { <<>>, <<MsgCanvasResize(0, 1, 1, 0)>>, <<MsgCanvasResize(0, 3, 3, 0)>>,
      <<MsgCanvasResize(0, INT16_MAX, INT16_MAX, 0)>> }

InitResize ==
    \E seed \in ResizeSeeds :
        \E m \in {Run(Fresh, seed)} :
            /\ heap = m.heap
            /\ cur = m.cur
            /\ log = m.log
            /\ pre = m.pre
            /\ crashed = m.crashed
            /\ steps = 0
            /\ threads = NoCalls
            /\ diff = DP_canvas_diff_new
            /\ view = NoView

WideResize ==
    /\ ~crashed
    /\ steps < MaxResizes
    /\ \E left, right \in WideArgs, top, bottom \in TallArgs, traps \in BOOLEAN :
           Handle(MsgCanvasResize(top, right, bottom, left), FALSE, traps)

NextResize == WideResize

SpecResize == InitResize /\ [][NextResize]_vars

(***************************************************************************)
(* Properties.  The last call is the last entry of log, pre is the heap    *)
(* before it and heap the heap after it.                                   *)
(***************************************************************************)
HasCall == log # <<>>

LastCall == log[Len(log)]

Succeeded(e) == ~e.crash /\ e.ret # NULL

Failed(e) == ~e.crash /\ e.ret = NULL

(* Two heap objects that differ at most in their reference count. *)
SameContent(a, b) ==
    [a EXCEPT !.refcount = 0, !.freed = FALSE] = [b EXCEPT !.refcount = 0, !.freed = FALSE]

(* Every object that was on the heap before the last call has its content. *)
PreUnmodified ==
    /\ \A k \in DOMAIN pre.cs : SameContent(heap.cs[k], pre.cs[k])
    /\ \A k \in DOMAIN pre.ll : SameContent(heap.ll[k], pre.ll[k])
    /\ \A k \in DOMAIN pre.ly : SameContent(heap.ly[k], pre.ly[k])
    /\ \A k \in DOMAIN pre.tile : SameContent(heap.tile[k], pre.tile[k])

(* The layers of snapshot cs on heap h, as records, in order. *)
LayersOf(h, cs) == [k \in DOMAIN h.ll[h.cs[cs].layers].elems |->
                       h.ly[h.ll[h.cs[cs].layers].elems[k]]]

(* Some layer of snapshot cs on heap h holds a sublayer with the given id. *)
HoldsSublayer(h, cs, sublayer_id) ==
    \E k \in DOMAIN LayersOf(h, cs) :
        \E j \in DOMAIN LayersOf(h, cs)[k].subs : LayersOf(h, cs)[k].subs[j].id = sublayer_id

(* The last call returned its input snapshot with one more reference and   *)
(* touched nothing else: nothing was allocated.                            *)
ReturnedInput ==
    /\ LastCall.ret = LastCall.input
    /\ LastCall.tcs = NULL
    /\ heap = [pre EXCEPT !.cs[LastCall.input].refcount = @ + 1]

(* C1: no call that succeeds modifies an object that was on the heap       *)
(* before it (a persisted snapshot or a part of one); reference counts     *)
(* aside, every write goes to nodes the call allocated.                    *)
C1_PersistedImmutable == (HasCall /\ Succeeded(LastCall)) => PreUnmodified

(* C2: when a call returns failure, the input snapshot's fields and        *)
(* reference count and the reference counts of its background tile and     *)
(* layer list are as before the call, and everything the call allocated,   *)
(* the transient canvas state first, has been released.                    *)
C2_FailureLeavesInput ==
    (HasCall /\ Failed(LastCall)) =>
        /\ heap.cs[LastCall.input] = pre.cs[LastCall.input]
        /\ pre.cs[LastCall.input].background_tile # NULL =>
               heap.tile[pre.cs[LastCall.input].background_tile]
                   = pre.tile[pre.cs[LastCall.input].background_tile]
        /\ heap.ll[pre.cs[LastCall.input].layers] = pre.ll[pre.cs[LastCall.input].layers]
        /\ LastCall.tcs # NULL =>
               /\ LastCall.tcs \notin DOMAIN pre.cs
               /\ heap.cs[LastCall.tcs].freed
               /\ heap.cs[LastCall.tcs].refcount = 0
        /\ \A k \in DOMAIN heap.cs : k \notin DOMAIN pre.cs => heap.cs[k].freed
        /\ \A k \in DOMAIN heap.ll : k \notin DOMAIN pre.ll => heap.ll[k].freed
        /\ \A k \in DOMAIN heap.ly : k \notin DOMAIN pre.ly => heap.ly[k].freed
        /\ \A k \in DOMAIN heap.tile : k \notin DOMAIN pre.tile => heap.tile[k].freed

(* A failed call that had built a transient of a snapshot with a           *)
(* background tile and layers.                                             *)
C2_Witness ==
    /\ HasCall
    /\ Failed(LastCall)
    /\ LastCall.tcs # NULL
    /\ pre.cs[LastCall.input].background_tile # NULL
    /\ LayersOf(pre, LastCall.input) # <<>>

(* C3: PenUp on a snapshot in which no layer holds a sublayer with the     *)
(* message's context id allocates nothing and returns the same snapshot    *)
(* with one more reference.                                                *)
C3_PenUpLazy ==
    (/\ HasCall
     /\ LastCall.msg.type = "PEN_UP"
     /\ ~HoldsSublayer(pre, LastCall.input, LastCall.msg.context_id)) =>
        ~LastCall.crash /\ ReturnedInput

(* PenUp of one user on a snapshot that holds only another user's stroke. *)
C3_Witness ==
    /\ HasCall
    /\ LastCall.msg.type = "PEN_UP"
    /\ ~HoldsSublayer(pre, LastCall.input, LastCall.msg.context_id)
    /\ \E c \in {1, 2} : HoldsSublayer(pre, LastCall.input, c)
    /\ ReturnedInput

DrawDabsTypes == {"DRAW_DABS_CLASSIC", "DRAW_DABS_PIXEL", "DRAW_DABS_PIXEL_SQUARE"}

(* C4 as stated: every draw-dabs message with zero dabs returns its input  *)
(* snapshot with one more reference and builds no transient.               *)
C4_ZeroDabsAlways ==
    (/\ HasCall
     /\ LastCall.msg.type \in DrawDabsTypes
     /\ LastCall.msg.dabs = <<>>) => ReturnedInput

(* C4, amended: a draw-dabs message with zero dabs returns its input       *)
(* snapshot with one more reference and builds no transient when its blend *)
(* mode exists and is valid for brushes; otherwise it fails, and leaves    *)
(* the heap as it was.                                                     *)
C4_ZeroDabs ==
    (/\ HasCall
     /\ LastCall.msg.type \in DrawDabsTypes
     /\ LastCall.msg.dabs = <<>>) =>
        IF /\ DP_blend_mode_exists(LastCall.msg.blend_mode)
           /\ DP_blend_mode_valid_for_brush(LastCall.msg.blend_mode)
        THEN ReturnedInput
        ELSE Failed(LastCall) /\ LastCall.tcs = NULL /\ heap = pre

(* A zero-dab stroke with a brush blend mode on a snapshot with layers. *)
C4_Witness ==
    /\ HasCall
    /\ LastCall.msg.type \in DrawDabsTypes
    /\ LastCall.msg.dabs = <<>>
    /\ DP_blend_mode_valid_for_brush(LastCall.msg.blend_mode)
    /\ LayersOf(pre, LastCall.input) # <<>>
    /\ ReturnedInput

(* The sublayers of a layer other than those with the given id, in order. *)
OtherSublayers(subs, sublayer_id) == SelectSeq(subs, LAMBDA sub : sub.id # sublayer_id)

(* C5: after a successful PenUp no layer of the result holds a sublayer    *)
(* with the message's context id, and every layer has its other sublayers  *)
(* in their order.                                                         *)
C5_PenUpMergesAll ==
    (HasCall /\ LastCall.msg.type = "PEN_UP" /\ Succeeded(LastCall)) =>
        /\ ~HoldsSublayer(heap, LastCall.ret, LastCall.msg.context_id)
        /\ DOMAIN LayersOf(heap, LastCall.ret) = DOMAIN LayersOf(pre, LastCall.input)
        /\ \A k \in DOMAIN LayersOf(pre, LastCall.input) :
               LayersOf(heap, LastCall.ret)[k].subs
                   = OtherSublayers(LayersOf(pre, LastCall.input)[k].subs,
                                    LastCall.msg.context_id)

(* The call before the last. *)
CallBefore == log[Len(log) - 1]

(* C6: a PenUp applied to the result of a PenUp of the same user returns   *)
(* that very result and builds nothing.                                    *)
C6_PenUpIdempotent ==
    (/\ Len(log) >= 2
     /\ CallBefore.msg.type = "PEN_UP"
     /\ LastCall.msg = CallBefore.msg
     /\ Succeeded(CallBefore)
     /\ LastCall.input = CallBefore.ret
     /\ ~LastCall.crash) => ReturnedInput

(* C7: every canvas state on the heap, persisted or transient, live or     *)
(* released, has a width and a height between 0 and INT16_MAX.             *)
C7_DimensionsBounded ==
    \A k \in DOMAIN heap.cs :
        /\ 0 <= heap.cs[k].width /\ heap.cs[k].width <= INT16_MAX
        /\ 0 <= heap.cs[k].height /\ heap.cs[k].height <= INT16_MAX

(* A resize that would widen a canvas of the largest width was refused. *)
C7_Witness ==
    /\ HasCall
    /\ LastCall.msg.type = "CANVAS_RESIZE"
    /\ pre.cs[LastCall.input].width = INT16_MAX
    /\ LastCall.msg.right = 1
    /\ LastCall.msg.left = 0
    /\ Failed(LastCall)

(* size + a + b, as an integer of any width, lies between 1 and INT16_MAX. *)
NewSizeValid(size, a, b) ==
    /\ ~int_add_overflows(a, b)
    /\ a + b >= 1 - size
    /\ a + b <= INT16_MAX - size

(* C8: a resize succeeds exactly when width + left + right and             *)
(* height + top + bottom both lie between 1 and INT16_MAX, and the new     *)
(* snapshot then has these dimensions.                                     *)
C8_ResizeExactlyWhenValid ==
    (HasCall /\ LastCall.msg.type = "CANVAS_RESIZE") =>
        /\ Succeeded(LastCall) <=>
               /\ NewSizeValid(pre.cs[LastCall.input].width,
                               LastCall.msg.left, LastCall.msg.right)
               /\ NewSizeValid(pre.cs[LastCall.input].height,
                               LastCall.msg.top, LastCall.msg.bottom)
        /\ Succeeded(LastCall) =>
               /\ heap.cs[LastCall.ret].width
                      = pre.cs[LastCall.input].width
                            + (LastCall.msg.left + LastCall.msg.right)
               /\ heap.cs[LastCall.ret].height
                      = pre.cs[LastCall.input].height
                            + (LastCall.msg.top + LastCall.msg.bottom)

(* C9: a successful resize keeps the background tile and the number, ids   *)
(* and order of the layers, and every layer is a new layer of the new size *)
(* with its content moved by (left, top); after a failed one the released  *)
(* transient still has the input's width, height and layer list, and that  *)
(* list is as it was.                                                      *)
C9_ResizeKeeps ==
    (HasCall /\ LastCall.msg.type = "CANVAS_RESIZE" /\ ~LastCall.crash) =>
        IF LastCall.ret # NULL
        THEN /\ heap.cs[LastCall.ret].background_tile
                    = pre.cs[LastCall.input].background_tile
             /\ DOMAIN LayersOf(heap, LastCall.ret) = DOMAIN LayersOf(pre, LastCall.input)
             /\ \A k \in DOMAIN LayersOf(pre, LastCall.input) :
                    /\ LayersOf(heap, LastCall.ret)[k].id
                           = LayersOf(pre, LastCall.input)[k].id
                    /\ LayersOf(heap, LastCall.ret)[k].width = heap.cs[LastCall.ret].width
                    /\ LayersOf(heap, LastCall.ret)[k].height = heap.cs[LastCall.ret].height
                    /\ LayersOf(heap, LastCall.ret)[k].pix
                           = Translate(LayersOf(pre, LastCall.input)[k].pix,
                                       LastCall.msg.left, LastCall.msg.top,
                                       heap.cs[LastCall.ret].width,
                                       heap.cs[LastCall.ret].height)
                    /\ heap.ll[heap.cs[LastCall.ret].layers].elems[k] \notin DOMAIN pre.ly
        ELSE /\ heap.cs[LastCall.tcs].width = pre.cs[LastCall.input].width
             /\ heap.cs[LastCall.tcs].height = pre.cs[LastCall.input].height
             /\ heap.cs[LastCall.tcs].layers = pre.cs[LastCall.input].layers
             /\ heap.ll[pre.cs[LastCall.input].layers] = pre.ll[pre.cs[LastCall.input].layers]

(* A successful resize of a snapshot with a background tile and two        *)
(* painted layers.                                                         *)
C9_Witness ==
    /\ HasCall
    /\ LastCall.msg.type = "CANVAS_RESIZE"
    /\ Succeeded(LastCall)
    /\ pre.cs[LastCall.input].background_tile # NULL
    /\ Len(LayersOf(pre, LastCall.input)) = 2
    /\ LayersOf(pre, LastCall.input)[1].pix # {}
    /\ heap.cs[LastCall.ret].width # pre.cs[LastCall.input].width

(* The last two calls are successful resizes, the second of the result of  *)
(* the first and by the opposite borders.                                  *)
ResizedThereAndBack ==
    /\ Len(log) >= 2
    /\ CallBefore.msg.type = "CANVAS_RESIZE"
    /\ LastCall.msg.type = "CANVAS_RESIZE"
    /\ Succeeded(CallBefore)
    /\ Succeeded(LastCall)
    /\ LastCall.input = CallBefore.ret
    /\ LastCall.msg.top = -CallBefore.msg.top
    /\ LastCall.msg.right = -CallBefore.msg.right
    /\ LastCall.msg.bottom = -CallBefore.msg.bottom
    /\ LastCall.msg.left = -CallBefore.msg.left

(* The result of the second resize has the size and the background tile of *)
(* the snapshot the first was applied to, and as many layers.              *)
SameFrame ==
    /\ heap.cs[LastCall.ret].width = heap.cs[CallBefore.input].width
    /\ heap.cs[LastCall.ret].height = heap.cs[CallBefore.input].height
    /\ heap.cs[LastCall.ret].background_tile = heap.cs[CallBefore.input].background_tile
    /\ DOMAIN LayersOf(heap, LastCall.ret) = DOMAIN LayersOf(heap, CallBefore.input)

(* C10 as stated: after a resize and the opposite resize the snapshot has  *)
(* the size, the background tile and, in every layer and sublayer, the     *)
(* pixels of the starting snapshot.                                        *)
C10_RoundTripIdentity ==
    ResizedThereAndBack =>
        /\ SameFrame
        /\ \A k \in DOMAIN LayersOf(heap, CallBefore.input) :
               /\ LayersOf(heap, LastCall.ret)[k].pix
                      = LayersOf(heap, CallBefore.input)[k].pix
               /\ LayersOf(heap, LastCall.ret)[k].subs
                      = LayersOf(heap, CallBefore.input)[k].subs

(* The pixels of pix that lie inside the intermediate canvas, the one the  *)
(* first resize made.                                                      *)
KeptPixels(pix) ==
    {t \in pix : /\ t[1] + CallBefore.msg.left >= 0
                 /\ t[1] + CallBefore.msg.left < heap.cs[CallBefore.ret].width
                 /\ t[2] + CallBefore.msg.top >= 0
                 /\ t[2] + CallBefore.msg.top < heap.cs[CallBefore.ret].height}

(* C10, amended: after a resize and the opposite resize the snapshot has   *)
(* the size and the background tile of the starting snapshot, and every    *)
(* layer and sublayer has the starting pixels that lay inside the          *)
(* intermediate canvas and is blank elsewhere.                             *)
C10_RoundTripKeepsInside ==
    ResizedThereAndBack =>
        /\ SameFrame
        /\ \A k \in DOMAIN LayersOf(heap, CallBefore.input) :
               /\ LayersOf(heap, LastCall.ret)[k].id = LayersOf(heap, CallBefore.input)[k].id
               /\ LayersOf(heap, LastCall.ret)[k].pix
                      = KeptPixels(LayersOf(heap, CallBefore.input)[k].pix)
               /\ LayersOf(heap, LastCall.ret)[k].subs
                      = [j \in DOMAIN LayersOf(heap, CallBefore.input)[k].subs |->
                            [LayersOf(heap, CallBefore.input)[k].subs[j] EXCEPT
                                !.pix = KeptPixels(@)]]

(* A round trip through a smaller canvas that cut a painted pixel off a    *)
(* layer and kept another.                                                 *)
C10_Witness ==
    /\ ResizedThereAndBack
    /\ \E k \in DOMAIN LayersOf(heap, CallBefore.input) :
           /\ LayersOf(heap, LastCall.ret)[k].pix # LayersOf(heap, CallBefore.input)[k].pix
    /\ \E k \in DOMAIN LayersOf(heap, CallBefore.input) :
           \E j \in DOMAIN LayersOf(heap, CallBefore.input)[k].subs :
               LayersOf(heap, LastCall.ret)[k].subs[j].pix # {}

(* Some id named by the last call's message is the id of no layer of its   *)
(* input snapshot.                                                         *)
NamesUnknownLayer ==
    \E k \in DOMAIN LastCall.msg.layer_ids :
        LastCall.msg.layer_ids[k] \notin LayerIds(pre, pre.cs[LastCall.input].layers)

(* C11: a LayerOrder that names an id of no layer returns failure, leaves  *)
(* the process alive and the input snapshot as it was.                     *)
C11_LayerOrderUnknownFails ==
    (HasCall /\ LastCall.msg.type = "LAYER_ORDER" /\ NamesUnknownLayer) =>
        /\ Failed(LastCall)
        /\ heap.cs[LastCall.input] = pre.cs[LastCall.input]
        /\ heap.ll[pre.cs[LastCall.input].layers] = pre.ll[pre.cs[LastCall.input].layers]

(* Every layer list a live snapshot holds has distinct ids greater than 0. *)
LayerIdsValid ==
    \A c \in DOMAIN heap.cs :
        (~heap.cs[c].freed /\ heap.cs[c].layers # NULL) =>
            /\ \A k \in DOMAIN LayersOf(heap, c) : LayersOf(heap, c)[k].id > 0
            /\ \A j, k \in DOMAIN LayersOf(heap, c) :
                   LayersOf(heap, c)[j].id = LayersOf(heap, c)[k].id => j = k

(* C12: the layer ids of every snapshot are distinct and greater than 0,   *)
(* and a LayerCreate with an id the snapshot has fails and changes nothing.*)
C12_LayerIdsUniquePositive ==
    /\ LayerIdsValid
    /\ (/\ HasCall
        /\ LastCall.msg.type = "LAYER_CREATE"
        /\ LastCall.msg.layer_id \in LayerIds(pre, pre.cs[LastCall.input].layers)) =>
           /\ Failed(LastCall)
           /\ heap.cs[LastCall.input] = pre.cs[LastCall.input]
           /\ heap.ll[pre.cs[LastCall.input].layers] = pre.ll[pre.cs[LastCall.input].layers]

(* The step is a LayerDelete without merge of the layer that the call      *)
(* before it, a successful LayerCreate, made, applied to that call's       *)
(* result.  Before the step pre is the heap the LayerCreate was applied to.*)
DeletesCreatedLayer ==
    /\ HasCall
    /\ LastCall.msg.type = "LAYER_CREATE"
    /\ Succeeded(LastCall)
    /\ Len(log') = Len(log) + 1
    /\ LastCall'.msg.type = "LAYER_DELETE"
    /\ LastCall'.msg.layer_id = LastCall.msg.layer_id
    /\ ~LastCall'.msg.merge
    /\ LastCall'.input = LastCall.ret

(* C13: a successful LayerCreate of a new id followed by a LayerDelete of  *)
(* that id without merge gives a snapshot with the width, height and       *)
(* background tile of the starting one and the same layers in the same     *)
(* order, each with the content and properties it had.                     *)
C13_CreateDeleteRestores ==
    [][DeletesCreatedLayer =>
         /\ Succeeded(LastCall')
         /\ heap'.cs[LastCall'.ret].width = pre.cs[LastCall.input].width
         /\ heap'.cs[LastCall'.ret].height = pre.cs[LastCall.input].height
         /\ heap'.cs[LastCall'.ret].background_tile = pre.cs[LastCall.input].background_tile
         /\ heap'.ll[heap'.cs[LastCall'.ret].layers].elems
                = pre.ll[pre.cs[LastCall.input].layers].elems
         /\ \A k \in DOMAIN LayersOf(pre, LastCall.input) :
                SameContent(LayersOf(heap', LastCall'.ret)[k],
                            LayersOf(pre, LastCall.input)[k])]_vars

(* A filled layer was inserted between two painted layers and deleted      *)
(* again.                                                                  *)
C13_Witness ==
    /\ Len(log) >= 2
    /\ CallBefore.msg.type = "LAYER_CREATE"
    /\ CallBefore.msg.insert
    /\ CallBefore.msg.fill # BLANK
    /\ Succeeded(CallBefore)
    /\ LastCall.msg.type = "LAYER_DELETE"
    /\ LastCall.msg.layer_id = CallBefore.msg.layer_id
    /\ ~LastCall.msg.merge
    /\ LastCall.input = CallBefore.ret
    /\ Succeeded(LastCall)
    /\ Len(LayersOf(heap, LastCall.ret)) = 2

(* The last call is a draw-dabs call with at least one dab that succeeded. *)
DrewDabs ==
    /\ HasCall
    /\ LastCall.msg.type \in DrawDabsTypes
    /\ LastCall.msg.dabs # <<>>
    /\ Succeeded(LastCall)

(* The place in the layer list of the layer the last call's message names. *)
TargetIndex == IndexById(pre, pre.cs[LastCall.input].layers, LastCall.msg.layer_id)

(* The sublayers with the given id among subs. *)
SublayersWithId(subs, sublayer_id) == SelectSeq(subs, LAMBDA sub : sub.id = sublayer_id)

(* C14: an indirect draw-dabs call draws into the sublayer whose id is the *)
(* context id, gives it the top byte of the colour as opacity and the      *)
(* message's blend mode, and has the dabs composited with NORMAL; a direct *)
(* one uses no sublayer (sublayer id 0), leaves the layer's sublayers as   *)
(* they were and has the dabs composited with the message's blend mode.    *)
C14_DrawDabsModes ==
    DrewDabs =>
        IF LastCall.msg.indirect
        THEN /\ draw_dabs_params(LastCall.msg.context_id, LastCall.msg).sublayer_id
                    = LastCall.msg.context_id
             /\ draw_dabs_params(LastCall.msg.context_id, LastCall.msg).dabs_blend_mode
                    = "NORMAL"
             /\ Len(SublayersWithId(LayersOf(heap, LastCall.ret)[TargetIndex].subs,
                                    LastCall.msg.context_id)) = 1
             /\ \A j \in DOMAIN LayersOf(heap, LastCall.ret)[TargetIndex].subs :
                    LayersOf(heap, LastCall.ret)[TargetIndex].subs[j].id
                        = LastCall.msg.context_id =>
                        /\ LayersOf(heap, LastCall.ret)[TargetIndex].subs[j].opacity * 256
                               <= LastCall.msg.color[1]
                        /\ LastCall.msg.color[1]
                               < (LayersOf(heap, LastCall.ret)[TargetIndex].subs[j].opacity + 1)
                                     * 256
                        /\ LayersOf(heap, LastCall.ret)[TargetIndex].subs[j].blend_mode
                               = LastCall.msg.blend_mode
             /\ LayersOf(heap, LastCall.ret)[TargetIndex].pix
                    = LayersOf(pre, LastCall.input)[TargetIndex].pix
        ELSE /\ draw_dabs_params(LastCall.msg.context_id, LastCall.msg).sublayer_id = 0
             /\ draw_dabs_params(LastCall.msg.context_id, LastCall.msg).dabs_blend_mode
                    = LastCall.msg.blend_mode
             /\ LayersOf(heap, LastCall.ret)[TargetIndex].subs
                    = LayersOf(pre, LastCall.input)[TargetIndex].subs

(* An indirect MULTIPLY stroke with a half-opaque colour made a sublayer   *)
(* on a layer that had none.                                               *)
C14_Witness ==
    /\ DrewDabs
    /\ LastCall.msg.indirect
    /\ LastCall.msg.blend_mode = "MULTIPLY"
    /\ LastCall.msg.color = HALF
    /\ LayersOf(pre, LastCall.input)[TargetIndex].subs = <<>>
    /\ LayersOf(heap, LastCall.ret)[TargetIndex].subs # <<>>

(* [pos, pos + size) and [0, limit) have no point in common, for integers  *)
(* of any width (pos > -2^31, 0 <= limit).                                 *)
SpanOutside(pos, size, limit) == size <= 0 \/ pos >= limit \/ size <= -pos

(* The upper end of the part of [pos, pos + size) inside [0, limit), when  *)
(* there is one.                                                           *)
SpanEnd(pos, size, limit) ==
    IF pos >= 0 THEN (IF size > limit - pos THEN limit ELSE pos + size)
    ELSE DP_min_int(pos + size, limit)

(* The rectangle of the last call's message and its input canvas have no   *)
(* pixel in common.                                                        *)
FillsOutside ==
    \/ SpanOutside(LastCall.msg.x, LastCall.msg.width, pre.cs[LastCall.input].width)
    \/ SpanOutside(LastCall.msg.y, LastCall.msg.height, pre.cs[LastCall.input].height)

(* C15: a FillRect whose rectangle has no pixel in common with the canvas  *)
(* returns failure; when the request goes to the layer list (a transient   *)
(* was built) the rectangle passed is the common part, with                *)
(* 0 <= left < right <= canvas width and 0 <= top < bottom <= height.      *)
C15_FillRectClipped ==
    (HasCall /\ LastCall.msg.type = "FILL_RECT") =>
        /\ FillsOutside => Failed(LastCall)
        /\ LastCall.tcs # NULL =>
               /\ ~FillsOutside
               /\ fill_rect_area(pre, LastCall.input, LastCall.msg)
                      = << DP_max_int(LastCall.msg.x, 0), DP_max_int(LastCall.msg.y, 0),
                           SpanEnd(LastCall.msg.x, LastCall.msg.width,
                                   pre.cs[LastCall.input].width),
                           SpanEnd(LastCall.msg.y, LastCall.msg.height,
                                   pre.cs[LastCall.input].height) >>
               /\ 0 <= fill_rect_area(pre, LastCall.input, LastCall.msg)[1]
               /\ fill_rect_area(pre, LastCall.input, LastCall.msg)[1]
                      < fill_rect_area(pre, LastCall.input, LastCall.msg)[3]
               /\ fill_rect_area(pre, LastCall.input, LastCall.msg)[3]
                      <= pre.cs[LastCall.input].width
               /\ 0 <= fill_rect_area(pre, LastCall.input, LastCall.msg)[2]
               /\ fill_rect_area(pre, LastCall.input, LastCall.msg)[2]
                      < fill_rect_area(pre, LastCall.input, LastCall.msg)[4]
               /\ fill_rect_area(pre, LastCall.input, LastCall.msg)[4]
                      <= pre.cs[LastCall.input].height

(* The area of the bounding rectangle of the last message's destination. *)
DstArea == DP_rect_size(DP_quad_bounds(LastCall.msg.dst))

(* The greatest destination area the input canvas of the last call allows. *)
DstAreaLimit == (pre.cs[LastCall.input].width + 1) * (pre.cs[LastCall.input].height + 1)

(* The last call failed before it built a canvas state, a layer list, a    *)
(* layer or a tile.                                                        *)
RefusedUnbuilt ==
    /\ Failed(LastCall)
    /\ LastCall.tcs = NULL
    /\ heap.cs = pre.cs
    /\ heap.ll = pre.ll
    /\ heap.ly = pre.ly
    /\ heap.tile = pre.tile

(* C16: a RegionMove fails, building no transient canvas state, when the   *)
(* source rectangle has a width or height <= 0 and when the destination's  *)
(* bounding rectangle has an area above (width + 1) * (height + 1); with   *)
(* an area equal to that limit (and a source and mask that are in order)   *)
(* the move goes to the layer list and succeeds if the layer exists.       *)
C16_RegionMoveGuards ==
    (HasCall /\ LastCall.msg.type = "REGION_MOVE") =>
        /\ (LastCall.msg.src[3] <= 0 \/ LastCall.msg.src[4] <= 0) => RefusedUnbuilt
        /\ DstArea > DstAreaLimit => RefusedUnbuilt
        /\ (/\ DstArea = DstAreaLimit
            /\ LastCall.msg.src[3] > 0
            /\ LastCall.msg.src[4] > 0
            /\ LastCall.msg.mask # "bad") =>
               /\ LastCall.tcs # NULL
               /\ LastCall.msg.layer_id \in LayerIds(pre, pre.cs[LastCall.input].layers)
                      => Succeeded(LastCall)

(* A move onto a destination exactly as large as the limit succeeded on a  *)
(* canvas that is not empty.                                               *)
C16_Witness ==
    /\ HasCall
    /\ LastCall.msg.type = "REGION_MOVE"
    /\ DstArea = DstAreaLimit
    /\ pre.cs[LastCall.input].width > 0
    /\ Succeeded(LastCall)

(* The message types DP_canvas_state_handle has a handler for. *)
HandledTypes ==
    {"CANVAS_RESIZE", "LAYER_CREATE", "LAYER_ATTR", "LAYER_ORDER", "LAYER_RETITLE",
     "LAYER_DELETE", "LAYER_VISIBILITY", "PUT_IMAGE", "FILL_RECT", "REGION_MOVE",
     "PUT_TILE", "CANVAS_BACKGROUND", "PEN_UP"} \cup DrawDabsTypes

(* The last message is malformed: of a type without handler, a PutImage    *)
(* with an unknown blend mode, or a FillRect or DrawDabs whose blend mode  *)
(* is unknown or not one for brushes.                                      *)
Malformed ==
    \/ LastCall.msg.type \notin HandledTypes
    \/ /\ LastCall.msg.type = "PUT_IMAGE"
       /\ ~DP_blend_mode_exists(LastCall.msg.blend_mode)
    \/ /\ LastCall.msg.type \in {"FILL_RECT"} \cup DrawDabsTypes
       /\ \/ ~DP_blend_mode_exists(LastCall.msg.blend_mode)
          \/ ~DP_blend_mode_valid_for_brush(LastCall.msg.blend_mode)

(* C17: a malformed message (unhandled type, PutImage with an unknown      *)
(* blend mode, FillRect or DrawDabs with a blend mode that is unknown or   *)
(* not valid for brushes) makes DP_canvas_state_handle return failure      *)
(* without a transient canvas state having been created.                   *)
C17_MalformedRejectedEarly ==
    (HasCall /\ Malformed) =>
        /\ Failed(LastCall)
        /\ LastCall.tcs = NULL
        /\ heap = pre

(* A FillRect with a blend mode that exists but is not for brushes was     *)
(* refused although its layer exists and its rectangle lies on the canvas. *)
C17_Witness ==
    /\ HasCall
    /\ LastCall.msg.type = "FILL_RECT"
    /\ DP_blend_mode_exists(LastCall.msg.blend_mode)
    /\ ~DP_blend_mode_valid_for_brush(LastCall.msg.blend_mode)
    /\ LastCall.msg.layer_id \in LayerIds(pre, pre.cs[LastCall.input].layers)
    /\ LastCall.msg.x + LastCall.msg.width <= pre.cs[LastCall.input].width
    /\ RefusedUnbuilt

(* The payload of the last message, a CanvasBackground, yields a tile. *)
PayloadDecodes == LastCall.msg.is_color \/ LastCall.msg.image # "bad"

(* The colour of the tile the payload of the last message describes. *)
PayloadPixel == IF LastCall.msg.is_color THEN LastCall.msg.color ELSE LastCall.msg.image

(* The background tile of the input of the last call, NULL if none. *)
OldBackground == pre.cs[LastCall.input].background_tile

(* C18: a successful CanvasBackground returns a new, persisted snapshot    *)
(* whose background tile is the tile built from the payload and whose      *)
(* width, height and layer list object are the input's; the input still    *)
(* references its old background tile, which stays alive.  A payload that  *)
(* yields a tile succeeds; one that does not makes the call fail with no   *)
(* transient canvas state created.                                         *)
C18_BackgroundReplaced ==
    (HasCall /\ LastCall.msg.type = "CANVAS_BACKGROUND") =>
        /\ PayloadDecodes <=> Succeeded(LastCall)
        /\ ~PayloadDecodes => RefusedUnbuilt
        /\ Succeeded(LastCall) =>
               /\ LastCall.ret \notin DOMAIN pre.cs
               /\ ~heap.cs[LastCall.ret].transient
               /\ heap.cs[LastCall.ret].background_tile \in DOMAIN heap.tile
               /\ heap.cs[LastCall.ret].background_tile \notin DOMAIN pre.tile
               /\ heap.tile[heap.cs[LastCall.ret].background_tile] =
                      [refcount |-> 1, pixel |-> PayloadPixel, freed |-> FALSE]
               /\ heap.cs[LastCall.ret].width = pre.cs[LastCall.input].width
               /\ heap.cs[LastCall.ret].height = pre.cs[LastCall.input].height
               /\ heap.cs[LastCall.ret].layers = pre.cs[LastCall.input].layers
               /\ SameContent(heap.ll[heap.cs[LastCall.ret].layers],
                              pre.ll[pre.cs[LastCall.input].layers])
               /\ heap.cs[LastCall.input] = pre.cs[LastCall.input]
               /\ OldBackground # NULL =>
                      /\ ~heap.tile[OldBackground].freed
                      /\ heap.tile[OldBackground] = pre.tile[OldBackground]

(* The background of a snapshot that had one, and layers, was replaced. *)
C18_Witness ==
    /\ HasCall
    /\ LastCall.msg.type = "CANVAS_BACKGROUND"
    /\ Succeeded(LastCall)
    /\ OldBackground # NULL
    /\ LayersOf(pre, LastCall.input) # <<>>
    /\ heap.tile[heap.cs[LastCall.ret].background_tile].pixel # pre.tile[OldBackground].pixel

(***************************************************************************)
(* The life of a canvas state, with the steps the handlers are made of     *)
(* taken one at a time: a transient is made from a persisted snapshot      *)
(* (with or without its layer list made transient), and is then persisted  *)
(* or dropped, while drawing messages are handled in between.              *)
(***************************************************************************)
(* The canvas states of heap h under construction, and the finished ones. *)
Building(h) == {k \in DOMAIN h.cs : h.cs[k].transient /\ ~h.cs[k].freed}

Persisted(h) == {k \in DOMAIN h.cs : ~h.cs[k].transient /\ ~h.cs[k].freed}

(* A lifecycle call op on canvas state input that leaves heap h and        *)
(* returns ret.                                                            *)
LifecycleCall(op, input, with_layers, h, ret) ==
    /\ heap' = h
    /\ pre' = heap
    /\ log' = Append(log, [msg |-> [type |-> op, with_layers |-> with_layers],
                           input |-> input, ret |-> ret, tcs |-> ret, crash |-> FALSE])
    /\ steps' = steps + 1
    /\ UNCHANGED <<cur, crashed, threads, diff, view>>

(* DP_transient_canvas_state_new on a persisted snapshot, followed or not  *)
(* by get_transient_layer_list on the new transient.                       *)
TransientCanvasStateNew ==
    /\ Ready
    /\ \E cs \in Persisted(heap), with_layers \in BOOLEAN :
           LifecycleCall("TRANSIENT_NEW", cs, with_layers,
                         IF with_layers THEN transient_with_layers(heap, cs, 0)
                         ELSE DP_transient_canvas_state_new(heap, cs),
                         NextCanvasState(heap))

TransientCanvasStatePersist ==
    /\ Ready
    /\ \E tcs \in Building(heap) :
           LifecycleCall("TRANSIENT_PERSIST", tcs, FALSE,
                         DP_transient_canvas_state_persist(heap, tcs), tcs)

TransientCanvasStateDecref ==
    /\ Ready
    /\ \E tcs \in Building(heap) :
           LifecycleCall("TRANSIENT_DECREF", tcs, FALSE,
                         DP_transient_canvas_state_decref(heap, tcs), NULL)

NextLifecycle ==
    \/ TransientCanvasStateNew
    \/ TransientCanvasStatePersist
    \/ TransientCanvasStateDecref
    \/ Next

(* The snapshot the messages start from is the empty one or the one with   *)
(* background tile, layers and strokes in progress.                        *)
InitLifecycle ==
    \E k \in {0, 7} :
        \E m \in {Run(Fresh, SubSeq(History, 1, k))} :
            /\ heap = m.heap
            /\ cur = m.cur
            /\ log = m.log
            /\ pre = m.pre
            /\ crashed = m.crashed
            /\ steps = 0
            /\ threads = NoCalls
            /\ diff = DP_canvas_diff_new
            /\ view = NoView

SpecLifecycle == InitLifecycle /\ [][NextLifecycle]_vars

(* The last call made a transient: it is a new object, Building, with      *)
(* reference count 1, the source's width and height, and the source's      *)
(* background tile and layer list, each with one more reference than       *)
(* before; the source is as it was.                                        *)
NewIsBuilding ==
    /\ LastCall.ret \notin DOMAIN pre.cs
    /\ LastCall.ret \in Building(heap)
    /\ heap.cs[LastCall.ret].refcount = 1
    /\ heap.cs[LastCall.ret].width = pre.cs[LastCall.input].width
    /\ heap.cs[LastCall.ret].height = pre.cs[LastCall.input].height
    /\ heap.cs[LastCall.ret].background_tile = pre.cs[LastCall.input].background_tile
    /\ \A t \in DOMAIN pre.tile :
           heap.tile[t].refcount =
               pre.tile[t].refcount
                   + (IF t = pre.cs[LastCall.input].background_tile THEN 1 ELSE 0)
    /\ heap.cs[LastCall.input] = pre.cs[LastCall.input]
    /\ ~LastCall.msg.with_layers =>
           /\ heap.cs[LastCall.ret].layers = pre.cs[LastCall.input].layers
           /\ \A l \in DOMAIN pre.ll :
                  heap.ll[l].refcount =
                      pre.ll[l].refcount
                          + (IF l = pre.cs[LastCall.input].layers THEN 1 ELSE 0)
           /\ DOMAIN heap.ll = DOMAIN pre.ll

(* The last call persisted a transient: the same object is returned, now   *)
(* Persisted, with a layer list that is not transient and the reference    *)
(* count it had.                                                           *)
PersistIsSame ==
    /\ LastCall.ret = LastCall.input
    /\ LastCall.ret \in Persisted(heap)
    /\ ~heap.ll[heap.cs[LastCall.ret].layers].transient
    /\ heap.cs[LastCall.ret].refcount = pre.cs[LastCall.input].refcount
    /\ DOMAIN heap.cs = DOMAIN pre.cs

(* The last call dropped a Building state: it is released, and of the      *)
(* tiles and layer lists exactly its own lose one reference each.          *)
DropReleasesChildren ==
    /\ heap.cs[LastCall.input].freed
    /\ heap.cs[LastCall.input].refcount = 0
    /\ \A t \in DOMAIN pre.tile :
           heap.tile[t].refcount =
               pre.tile[t].refcount
                   - (IF t = pre.cs[LastCall.input].background_tile THEN 1 ELSE 0)
    /\ \A l \in DOMAIN pre.ll :
           heap.ll[l].refcount =
               pre.ll[l].refcount - (IF l = pre.cs[LastCall.input].layers THEN 1 ELSE 0)
    /\ \A k \in DOMAIN pre.cs \ {LastCall.input} : heap.cs[k] = pre.cs[k]

(* What holds after each call. *)
LifecycleState ==
    HasCall =>
        /\ LastCall.msg.type = "TRANSIENT_NEW" => NewIsBuilding
        /\ LastCall.msg.type = "TRANSIENT_PERSIST" => PersistIsSame
        /\ LastCall.msg.type = "TRANSIENT_DECREF" => DropReleasesChildren
        /\ (LastCall.msg.type \in HandledTypes /\ Succeeded(LastCall)) =>
               /\ LastCall.ret \in Persisted(heap)
               /\ ~heap.ll[heap.cs[LastCall.ret].layers].transient

(* A step takes no Persisted state back to Building. *)
NeverBuildingAgain ==
    \A k \in DOMAIN heap.cs : ~heap.cs[k].transient => ~heap'.cs[k].transient

(* C19: DP_transient_canvas_state_new yields a Building state with         *)
(* reference count 1 and the transient flag set that copies width and      *)
(* height and shares the source's background tile and layer list with      *)
(* exactly one added reference each; DP_transient_canvas_state_persist     *)
(* returns the same object with the flag cleared and a non-transient layer *)
(* list; dropping a Building state releases exactly the child references   *)
(* it holds; no state ever goes from Persisted back to Building; and       *)
(* DP_canvas_state_handle only ever returns Persisted states.              *)
C19_Lifecycle == []LifecycleState /\ [][NeverBuildingAgain]_vars

(* A transient whose layer list had been made transient was persisted. *)
C19_Witness ==
    /\ HasCall
    /\ LastCall.msg.type = "TRANSIENT_PERSIST"
    /\ pre.ll[pre.cs[LastCall.input].layers].transient
    /\ pre.ll[pre.cs[LastCall.input].layers].elems # <<>>
    /\ PersistIsSame

(***************************************************************************)
(* Reference counting of one snapshot by several threads.  A call of       *)
(* DP_canvas_state_incref or DP_canvas_state_decref is taken one access at *)
(* a time: the assertions, the atomic operation on the count, and in the   *)
(* thread that took the count to zero the release of the background tile,  *)
(* of the layer list and of the snapshot itself.  A thread calls only      *)
(* through a reference it owns; references are handed from thread to       *)
(* thread.                                                                 *)
(***************************************************************************)
(* Most references the snapshot gets before increfs stop. *)
MaxRefs == 3

(* A test that takes the last but one reference for the last as well. *)
SDL_AtomicDecRef_early(refcount) == refcount <= 2

(* SDL_AtomicDecRef: true when the count it decremented was 1. *)
SDL_AtomicDecRef(refcount) == refcount = 1

(* Thread t moves to pc owning owned references and leaves heap h.  An     *)
(* access to a released snapshot is undefined: the process may die of it   *)
(* or go on with what the memory holds.                                    *)
ThreadStep(t, pc, owned, h, touches) ==
    /\ threads' = [threads EXCEPT ![t] = [pc |-> pc, owned |-> owned]]
    /\ heap' = h
    /\ crashed' \in (IF touches /\ heap.cs[cur].freed THEN BOOLEAN ELSE {FALSE})
    /\ UNCHANGED <<cur, log, pre, steps, diff, view>>

(* DP_ASSERT(cs); DP_ASSERT(SDL_AtomicGet(&cs->refcount) > 0), in a build  *)
(* that checks assertions and in one that does not.                        *)
AssertAlive(t, pc, owned) ==
    \E asserts \in BOOLEAN :
        IF asserts /\ heap.cs[cur].refcount <= 0
        THEN /\ crashed' = TRUE
             /\ UNCHANGED <<heap, cur, log, pre, steps, threads, diff, view>>
        ELSE ThreadStep(t, pc, owned, heap, asserts)

CanvasStateIncrefEnter ==
    /\ ~crashed
    /\ \E t \in Threads :
           /\ threads[t].pc = "idle"
           /\ threads[t].owned > 0
           /\ heap.cs[cur].refcount < MaxRefs
           /\ AssertAlive(t, "incref", threads[t].owned)

CanvasStateIncrefAdd ==
    /\ ~crashed
    /\ \E t \in Threads :
           /\ threads[t].pc = "incref"
           /\ ThreadStep(t, "idle", threads[t].owned + 1,
                         DP_canvas_state_incref(heap, cur), TRUE)

(* The reference the call drops is no longer the thread's. *)
CanvasStateDecrefEnter ==
    /\ ~crashed
    /\ \E t \in Threads :
           /\ threads[t].pc = "idle"
           /\ threads[t].owned > 0
           /\ AssertAlive(t, "decref", threads[t].owned - 1)

CanvasStateDecrefDec ==
    /\ ~crashed
    /\ \E t \in Threads :
           /\ threads[t].pc = "decref"
           /\ ThreadStep(t,
                         IF SDL_AtomicDecRef(heap.cs[cur].refcount) THEN "release_tile"
                         ELSE "idle",
                         threads[t].owned,
                         [heap EXCEPT !.cs[cur].refcount = @ - 1], TRUE)

CanvasStateReleaseTile ==
    /\ ~crashed
    /\ \E t \in Threads :
           /\ threads[t].pc = "release_tile"
           /\ ThreadStep(t, "release_layers", threads[t].owned,
                         DP_tile_decref_nullable(heap, heap.cs[cur].background_tile), TRUE)

CanvasStateReleaseLayers ==
    /\ ~crashed
    /\ \E t \in Threads :
           /\ threads[t].pc = "release_layers"
           /\ ThreadStep(t, "free", threads[t].owned,
                         DP_layer_list_decref(heap, heap.cs[cur].layers), TRUE)

CanvasStateFree ==
    /\ ~crashed
    /\ \E t \in Threads :
           /\ threads[t].pc = "free"
           /\ ThreadStep(t, "idle", threads[t].owned,
                         [heap EXCEPT !.cs[cur].freed = TRUE], TRUE)

(* Thread t hands one of its references to thread u. *)
HandOver ==
    /\ ~crashed
    /\ \E t \in Threads, u \in Threads :
           /\ t # u
           /\ threads[t].pc = "idle"
           /\ threads[t].owned > 0
           /\ threads' = [threads EXCEPT ![t].owned = @ - 1, ![u].owned = @ + 1]
           /\ UNCHANGED <<heap, cur, log, pre, crashed, steps, diff, view>>

(* The snapshot is one with or without background tile and layers; the     *)
(* first thread owns every reference to it.                                *)
InitThreads ==
    \E k \in {0, 2, 7} :
        \E m \in {Run(Fresh, SubSeq(History, 1, k))} :
            /\ heap = m.heap
            /\ cur = m.cur
            /\ log = m.log
            /\ pre = m.heap
            /\ crashed = FALSE
            /\ steps = 0
            /\ threads = [NoCalls EXCEPT ![1].owned = m.heap.cs[m.cur].refcount]
            /\ diff = DP_canvas_diff_new
            /\ view = NoView

NextThreads ==
    \/ CanvasStateIncrefEnter
    \/ CanvasStateIncrefAdd
    \/ CanvasStateDecrefEnter
    \/ CanvasStateDecrefDec
    \/ CanvasStateReleaseTile
    \/ CanvasStateReleaseLayers
    \/ CanvasStateFree
    \/ HandOver

SpecThreads == InitThreads /\ [][NextThreads]_vars

(* The references owned by threads 1 .. n, those a decref is about to drop *)
(* included.                                                               *)
RECURSIVE HeldUpTo(_)
HeldUpTo(n) ==
    IF n = 0 THEN 0
    ELSE threads[n].owned + (IF threads[n].pc = "decref" THEN 1 ELSE 0) + HeldUpTo(n - 1)

(* The threads at work releasing the snapshot. *)
Releasing == {t \in Threads : threads[t].pc \in {"release_tile", "release_layers", "free"}}

(* The reference to the background tile has been given back, and the one   *)
(* to the layer list.                                                      *)
TileReleased ==
    heap.cs[cur].freed \/ \E t \in Threads : threads[t].pc \in {"release_layers", "free"}

LayersReleased == heap.cs[cur].freed \/ \E t \in Threads : threads[t].pc = "free"

(* The count is the number of references held; the snapshot is released by *)
(* one thread, from the moment the count is zero on; the tile and the      *)
(* layer list lose one reference each in the release and none otherwise;   *)
(* a thread in a call, or with a reference, finds the snapshot alive.      *)
CountedAndReleasedOnce ==
    /\ ~crashed
    /\ heap.cs[cur].refcount = HeldUpTo(NumThreads)
    /\ Cardinality(Releasing) <= 1
    /\ heap.cs[cur].refcount = 0 <=> (heap.cs[cur].freed \/ Releasing # {})
    /\ \A t \in Threads :
           (threads[t].pc # "idle" \/ threads[t].owned > 0) => ~heap.cs[cur].freed
    /\ \A t \in DOMAIN pre.tile :
           heap.tile[t].refcount =
               pre.tile[t].refcount
                   - (IF t = pre.cs[cur].background_tile /\ TileReleased THEN 1 ELSE 0)
    /\ \A l \in DOMAIN pre.ll :
           heap.ll[l].refcount =
               pre.ll[l].refcount - (IF l = pre.cs[cur].layers /\ LayersReleased THEN 1 ELSE 0)
    /\ \A k \in DOMAIN pre.cs \ {cur} : heap.cs[k] = pre.cs[k]

(* A step that raises the count finds it above zero, and a step from a     *)
(* released snapshot leaves the heap alone.                                *)
NoRevival ==
    /\ heap'.cs[cur].refcount > heap.cs[cur].refcount => heap.cs[cur].refcount > 0
    /\ heap.cs[cur].freed => heap' = heap

(* C20: under any interleaving of DP_canvas_state_incref and               *)
(* DP_canvas_state_decref calls by several threads, each dropping only     *)
(* references it owns, the canvas state is released exactly once, exactly  *)
(* when the count reaches zero, giving back exactly one reference to its   *)
(* background tile (if any) and one to its layer list; no incref takes the *)
(* count from 0 to 1 and no thread touches the state after its release.    *)
C20_ReleasedExactlyOnce == []CountedAndReleasedOnce /\ [][NoRevival]_vars

(* A thread other than the first owner took the count of a snapshot with  *)
(* a background tile to zero and has given back the tile and the layer     *)
(* list; the snapshot is about to be released.                             *)
C20_Witness ==
    /\ \E t \in Threads \ {1} : threads[t].pc = "free"
    /\ pre.cs[cur].background_tile # NULL
    /\ heap.cs[cur].refcount = 0
    /\ ~heap.cs[cur].freed
    /\ heap.tile[pre.cs[cur].background_tile].refcount
           = pre.tile[pre.cs[cur].background_tile].refcount - 1
    /\ heap.ll[pre.cs[cur].layers].refcount = pre.ll[pre.cs[cur].layers].refcount - 1

(***************************************************************************)
(* The canvas diff: a bitmap with one changed bit per tile of the canvas.  *)
(***************************************************************************)
(* tile_changes[i] of diff d. *)
TileChange(d, i) == d.tile_changes[i + 1]

(* The end of DP_canvas_diff_begin: the array is as long as reserved says  *)
(* and the loop has written init to its first count entries.               *)
diff_begin_fill(d, xtiles, ytiles, count, reserved, init, layer_props_changed) ==
    [count |-> count, xtiles |-> xtiles, ytiles |-> ytiles,
     tile_changes_reserved |-> reserved,
     tile_changes |-> [i \in 1 .. reserved |->
                          IF i <= count THEN init ELSE d.tile_changes[i]],
     layer_props_changed |-> layer_props_changed]

diff_begin_reserve(d, xtiles, ytiles, count, init, layer_props_changed) ==
    diff_begin_fill(d, xtiles, ytiles, count,
                    IF d.tile_changes_reserved < count THEN count
                    ELSE d.tile_changes_reserved,
                    init, layer_props_changed)

(* DP_canvas_diff_begin that takes the size for changed only when width    *)
(* and height both differ.                                                 *)
DP_canvas_diff_begin_both(d, old_width, old_height, current_width, current_height, layer_props_changed) ==
    diff_begin_reserve(d, DP_tile_size_round_up(current_width),
                       DP_tile_size_round_up(current_height),
                       DP_tile_size_round_up(current_width)
                           * DP_tile_size_round_up(current_height),
                       old_width # current_width /\ old_height # current_height,
                       layer_props_changed)

DP_canvas_diff_begin(d, old_width, old_height, current_width, current_height, layer_props_changed) ==
    diff_begin_reserve(d, DP_tile_size_round_up(current_width),
                       DP_tile_size_round_up(current_height),
                       DP_tile_size_round_up(current_width)
                           * DP_tile_size_round_up(current_height),
                       old_width # current_width \/ old_height # current_height,
                       layer_props_changed)

(* The loop of DP_canvas_diff_check from index i on.  fn returns true for  *)
(* the indexes in hits; calls lists the indexes fn has been called with.   *)
(* Result: [diff, calls].                                                  *)
RECURSIVE diff_check_from(_, _, _, _)
diff_check_from(d, hits, i, calls) ==
    IF i >= d.count THEN [diff |-> d, calls |-> calls]
    ELSE IF TileChange(d, i) THEN diff_check_from(d, hits, i + 1, calls)
    ELSE diff_check_from([d EXCEPT !.tile_changes[i + 1] = (i \in hits)], hits, i + 1,
                         Append(calls, i))

(* DP_canvas_diff_check whose loop starts at the second tile. *)
DP_canvas_diff_check_from_one(d, hits) == diff_check_from(d, hits, 1, <<>>)

DP_canvas_diff_check(d, hits) == diff_check_from(d, hits, 0, <<>>)

RECURSIVE diff_check_all_from(_, _)
diff_check_all_from(d, i) ==
    IF i >= d.count THEN d
    ELSE diff_check_all_from([d EXCEPT !.tile_changes[i + 1] = TRUE], i + 1)

DP_canvas_diff_check_all(d) == diff_check_all_from(d, 0)

(* The indexes DP_canvas_diff_each_index calls fn with, in order. *)
RECURSIVE diff_each_index_from(_, _, _)
diff_each_index_from(d, i, calls) ==
    IF i >= d.count THEN calls
    ELSE diff_each_index_from(d, i + 1,
                              IF TileChange(d, i) THEN Append(calls, i) ELSE calls)

DP_canvas_diff_each_index(d) == diff_each_index_from(d, 0, <<>>)

(* The positions <<x, y>> DP_canvas_diff_each_pos calls fn with, in order. *)
RECURSIVE diff_each_pos_from(_, _, _, _)
diff_each_pos_from(d, x, y, calls) ==
    IF y >= d.ytiles THEN calls
    ELSE IF x >= d.xtiles THEN diff_each_pos_from(d, 0, y + 1, calls)
    ELSE diff_each_pos_from(d, x + 1, y,
                            IF TileChange(d, y * d.xtiles + x)
                            THEN Append(calls, <<x, y>>) ELSE calls)

DP_canvas_diff_each_pos(d) == diff_each_pos_from(d, 0, 0, <<>>)

RECURSIVE diff_tiles_changed_from(_, _)
diff_tiles_changed_from(d, i) ==
    IF i >= d.count THEN FALSE
    ELSE IF TileChange(d, i) THEN TRUE
    ELSE diff_tiles_changed_from(d, i + 1)

(* DP_canvas_diff_tiles_changed that does not look at the first tile. *)
DP_canvas_diff_tiles_changed_from_one(d) == diff_tiles_changed_from(d, 1)

DP_canvas_diff_tiles_changed(d) == diff_tiles_changed_from(d, 0)

(***************************************************************************)
(* One diff object used over and over, for canvases of up to three by two  *)
(* tiles.                                                                  *)
(***************************************************************************)
(* Canvas sizes <<width, height>>. *)
DiffSizes == {<<0, 0>>, <<0, 64>>, <<1, 1>>, <<65, 64>>, <<64, 65>>, <<129, 65>>}

(* The sets of indexes a check function answers true for. *)
DiffHits == {{}, {0}, {1, 4}, {0, 2, 3, 5}}

(* An observer call that leaves diff d and reports v. *)
Observed(d, v) ==
    /\ diff' = d
    /\ view' = v
    /\ UNCHANGED <<heap, cur, log, pre, crashed, steps, threads>>

CanvasDiffBegin ==
    /\ ~crashed
    /\ \E old \in DiffSizes, current \in DiffSizes, layer_props_changed \in BOOLEAN :
           Observed(DP_canvas_diff_begin(diff, old[1], old[2], current[1], current[2],
                                         layer_props_changed),
                    [op |-> "begin", old_width |-> old[1], old_height |-> old[2],
                     current_width |-> current[1], current_height |-> current[2]])

CanvasDiffCheck ==
    /\ ~crashed
    /\ \E hits \in DiffHits :
           Observed(DP_canvas_diff_check(diff, hits).diff,
                    [op |-> "check", hits |-> hits,
                     calls |-> DP_canvas_diff_check(diff, hits).calls])

CanvasDiffCheckAll ==
    /\ ~crashed
    /\ Observed(DP_canvas_diff_check_all(diff), [op |-> "check_all"])

CanvasDiffEachIndex ==
    /\ ~crashed
    /\ Observed(diff, [op |-> "each_index", calls |-> DP_canvas_diff_each_index(diff)])

CanvasDiffEachPos ==
    /\ ~crashed
    /\ Observed(diff, [op |-> "each_pos", calls |-> DP_canvas_diff_each_pos(diff)])

CanvasDiffTilesChanged ==
    /\ ~crashed
    /\ Observed(diff, [op |-> "tiles_changed", ret |-> DP_canvas_diff_tiles_changed(diff)])

InitDiff ==
    /\ heap = Fresh.heap
    /\ cur = Fresh.cur
    /\ log = Fresh.log
    /\ pre = Fresh.pre
    /\ crashed = FALSE
    /\ steps = 0
    /\ threads = NoCalls
    /\ diff = DP_canvas_diff_new
    /\ view = NoView

NextDiff ==
    \/ CanvasDiffBegin
    \/ CanvasDiffCheck
    \/ CanvasDiffCheckAll
    \/ CanvasDiffEachIndex
    \/ CanvasDiffEachPos
    \/ CanvasDiffTilesChanged

SpecDiff == InitDiff /\ [][NextDiff]_vars

(* The least number of tiles of 64 pixels that cover n pixels. *)
TilesToCover(n) == CHOOSE k \in 0 .. n : k * 64 >= n /\ (k = 0 \/ (k - 1) * 64 < n)

(* The indexes of the tiles of diff d that are marked changed. *)
ChangedTiles(d) == {i \in 0 .. (d.count - 1) : d.tile_changes[i + 1]}

(* The tile count fits the array, whose length is the reserved capacity;   *)
(* right after a begin the grid is the one that covers the new size and    *)
(* the tiles are all changed or all unchanged, by whether the size changed.*)
BeginState ==
    /\ diff.count <= diff.tile_changes_reserved
    /\ Len(diff.tile_changes) = diff.tile_changes_reserved
    /\ view.op = "begin" =>
           /\ diff.xtiles = TilesToCover(view.current_width)
           /\ diff.ytiles = TilesToCover(view.current_height)
           /\ diff.count = diff.xtiles * diff.ytiles
           /\ ChangedTiles(diff) =
                  IF <<view.old_width, view.old_height>>
                         # <<view.current_width, view.current_height>>
                  THEN 0 .. (diff.count - 1) ELSE {}

ReservedGrows == diff'.tile_changes_reserved >= diff.tile_changes_reserved

(* C26: after DP_canvas_diff_begin the diff has xtiles = ceil(new_w / 64), *)
(* ytiles = ceil(new_h / 64) and count = xtiles * ytiles; every tile is    *)
(* marked changed when the old size differs from the new and unchanged     *)
(* otherwise, whatever bits earlier calls left; the count never exceeds    *)
(* the reserved capacity, which never shrinks.                             *)
C26_BeginResets == []BeginState /\ [][ReservedGrows]_vars

(* A begin for an unchanged size on a diff that had served a larger canvas *)
(* with every tile changed: the tiles of the grid are unchanged, the bits  *)
(* behind them are still set.                                              *)
C26_Witness ==
    /\ view.op = "begin"
    /\ diff.count > 1
    /\ ChangedTiles(diff) = {}
    /\ diff.count < diff.tile_changes_reserved
    /\ \A i \in (diff.count + 1) .. diff.tile_changes_reserved : diff.tile_changes[i]

(* The members of a sequence, and whether it is strictly ascending. *)
Range(seq) == {seq[k] : k \in DOMAIN seq}

Ascending(seq) == \A j, k \in DOMAIN seq : j < k => seq[j] < seq[k]

(* A step that is a DP_canvas_diff_check: fn was called with exactly the   *)
(* tiles that were unchanged, in ascending order, and the changed tiles    *)
(* are those that were changed and those fn answered true for.             *)
CheckStep ==
    view'.op = "check" =>
        /\ Ascending(view'.calls)
        /\ Range(view'.calls) = (0 .. (diff.count - 1)) \ ChangedTiles(diff)
        /\ ChangedTiles(diff') = ChangedTiles(diff) \cup (view'.hits \cap Range(view'.calls))
        /\ diff'.count = diff.count

(* A step other than a begin clears no changed bit. *)
ChangesGrow ==
    view'.op # "begin" => /\ diff'.count = diff.count
                          /\ ChangedTiles(diff) \subseteq ChangedTiles(diff')

(* C27: DP_canvas_diff_check invokes fn exactly once for each tile that is *)
(* unchanged when it is reached, in ascending index order, and never for a *)
(* tile already marked changed; it sets a tile changed exactly when fn     *)
(* returns true and never clears a changed bit, so between two begin calls *)
(* the set of changed tiles only grows under check and check_all.          *)
C27_CheckOnlyUnchanged == [][CheckStep /\ ChangesGrow]_vars

(* A check found a tile changed that fn would have answered false for, and *)
(* called fn for several tiles, of which it answered true for some.        *)
C27_Witness ==
    /\ view.op = "check"
    /\ Len(view.calls) >= 2
    /\ \E i \in Range(view.calls) : i \in view.hits
    /\ \E i \in Range(view.calls) : i \notin view.hits
    /\ \E i \in ChangedTiles(diff) : i \notin view.hits /\ i \notin Range(view.calls)

(* A step that is one of the three readers: it leaves the diff alone;      *)
(* each_index has called fn once for each changed tile and for no other,   *)
(* each_pos once for the position of each changed tile and for no other,   *)
(* and tiles_changed has answered whether there is a changed tile.         *)
ReadStep ==
    /\ view'.op \in {"each_index", "each_pos", "tiles_changed"} => diff' = diff
    /\ view'.op = "each_index" =>
           /\ Range(view'.calls) = ChangedTiles(diff)
           /\ Len(view'.calls) = Cardinality(ChangedTiles(diff))
    /\ view'.op = "each_pos" =>
           /\ \A p \in Range(view'.calls) :
                  p[1] \in 0 .. (diff.xtiles - 1) /\ p[2] \in 0 .. (diff.ytiles - 1)
           /\ {p[2] * diff.xtiles + p[1] : p \in Range(view'.calls)} = ChangedTiles(diff)
           /\ Len(view'.calls) = Cardinality(ChangedTiles(diff))
    /\ view'.op = "tiles_changed" => (view'.ret <=> ChangedTiles(diff) # {})

(* C28: DP_canvas_diff_each_index calls fn exactly once for each changed   *)
(* tile index and for no unchanged one; DP_canvas_diff_each_pos visits the *)
(* same tiles as positions (x, y) with index = y * xtiles + x;             *)
(* DP_canvas_diff_tiles_changed returns true exactly when at least one     *)
(* such call would be made; none of the three modifies the diff.           *)
C28_ReadersExact == [][ReadStep]_vars

(* each_pos went over a grid of three by two tiles of which some but not   *)
(* all were changed, one of them in the second row.                        *)
C28_Witness ==
    /\ view.op = "each_pos"
    /\ diff.xtiles = 3
    /\ diff.ytiles = 2
    /\ Len(view.calls) \in 2 .. 5
    /\ \E p \in Range(view.calls) : p[2] = 1 /\ p[1] > 0

(***************************************************************************)
(* Comparing, flattening and rendering snapshots.                          *)
(***************************************************************************)
(* layer.c and layer_list.c are not part of the sources at hand.  A layer  *)
(* differs from the one it is compared with in every tile when a property  *)
(* that affects rendering changed, else in the cells that hold different   *)
(* tile objects.                                                           *)
layer_tile_at(rec, i) == {e[2] : e \in {f \in rec.tiles : f[1] = i}}

layer_props_differ(a, b) ==
    \/ a.opacity # b.opacity
    \/ a.blend_mode # b.blend_mode
    \/ a.visible # b.visible
    \/ a.censored # b.censored

DP_layer_diff(h, l, prev, d) ==
    IF layer_props_differ(h.ly[l], h.ly[prev]) THEN DP_canvas_diff_check_all(d)
    ELSE DP_canvas_diff_check(
             d, {i \in 0 .. (d.count - 1) :
                    layer_tile_at(h.ly[l], i) # layer_tile_at(h.ly[prev], i)}).diff

(* The layers of list ll are walked from the bottom; each one whose id     *)
(* list prev holds too is compared with the layer of that id.              *)
RECURSIVE layer_list_diff_from(_, _, _, _, _)
layer_list_diff_from(h, ll, prev, i, d) ==
    IF i > Len(h.ll[ll].elems) THEN d
    ELSE layer_list_diff_from(
             h, ll, prev, i + 1,
             IF IndexById(h, prev, h.ly[h.ll[ll].elems[i]].id) = 0 THEN d
             ELSE DP_layer_diff(
                      h, h.ll[ll].elems[i],
                      h.ll[prev].elems[IndexById(h, prev, h.ly[h.ll[ll].elems[i]].id)], d))

DP_layer_list_diff(h, ll, prev, d) == layer_list_diff_from(h, ll, prev, 1, d)

diff_states_size_only(h, cs, prev, d) ==
    IF h.cs[cs].width # h.cs[prev].width \/ h.cs[cs].height # h.cs[prev].height
    THEN DP_canvas_diff_check_all(d)
    ELSE DP_layer_list_diff(h, h.cs[cs].layers, h.cs[prev].layers, d)

diff_states(h, cs, prev, d) ==
    IF \/ h.cs[cs].background_tile # h.cs[prev].background_tile
       \/ h.cs[cs].width # h.cs[prev].width
       \/ h.cs[cs].height # h.cs[prev].height
    THEN DP_canvas_diff_check_all(d)
    ELSE DP_layer_list_diff(h, h.cs[cs].layers, h.cs[prev].layers, d)

DP_canvas_state_diff_begin_only(h, cs, prev_or_null, d, layer_props_changed) ==
    IF prev_or_null # NULL
    THEN DP_canvas_diff_begin(d, h.cs[prev_or_null].width, h.cs[prev_or_null].height,
                              h.cs[cs].width, h.cs[cs].height, layer_props_changed)
    ELSE DP_canvas_diff_begin(d, 0, 0, h.cs[cs].width, h.cs[cs].height,
                              layer_props_changed)

DP_canvas_state_diff_from_nothing(h, cs, prev_or_null, d, layer_props_changed) ==
    IF prev_or_null # NULL /\ cs # prev_or_null
    THEN diff_states(h, cs, prev_or_null,
                     DP_canvas_diff_begin(d, h.cs[prev_or_null].width,
                                          h.cs[prev_or_null].height, h.cs[cs].width,
                                          h.cs[cs].height, layer_props_changed))
    ELSE DP_canvas_diff_begin(d, 0, 0, h.cs[cs].width, h.cs[cs].height,
                              layer_props_changed)

(* The calls of DP_canvas_diff_begin pass no value for its parameter       *)
(* layer_props_changed, which is therefore whatever the call left in its   *)
(* place: either value.                                                    *)
DP_canvas_state_diff(h, cs, prev_or_null, d, layer_props_changed) ==
    IF prev_or_null # NULL
    THEN IF cs # prev_or_null
         THEN diff_states(h, cs, prev_or_null,
                          DP_canvas_diff_begin(d, h.cs[prev_or_null].width,
                                               h.cs[prev_or_null].height, h.cs[cs].width,
                                               h.cs[cs].height, layer_props_changed))
         ELSE DP_canvas_diff_begin(d, h.cs[prev_or_null].width, h.cs[prev_or_null].height,
                                   h.cs[cs].width, h.cs[cs].height, layer_props_changed)
    ELSE DP_canvas_diff_begin(d, 0, 0, h.cs[cs].width, h.cs[cs].height,
                              layer_props_changed)

(* ----------------------------- flat image ------------------------------ *)
(* What a function that returns an image returns when it fails: no image   *)
(* (a null pointer), the error message set.                                *)
NoImage(error) == [error |-> error]

DP_FLAT_IMAGE_INCLUDE_BACKGROUND == "INCLUDE_BACKGROUND"
DP_FLAT_IMAGE_INCLUDE_SUBLAYERS == "INCLUDE_SUBLAYERS"

(* The visible layers of the list are merged onto content pix from the     *)
(* bottom up, each with its sublayers when the flags ask for them.         *)
RECURSIVE sublayers_merged(_, _, _)
sublayers_merged(pix, subs, i) ==
    IF i > Len(subs) THEN pix
    ELSE sublayers_merged(Composite(pix, subs[i].pix), subs, i + 1)

layer_merged(pix, rec, flags) ==
    IF ~rec.visible THEN pix
    ELSE Composite(pix, IF DP_FLAT_IMAGE_INCLUDE_SUBLAYERS \in flags
                        THEN sublayers_merged(rec.pix, rec.subs, 1)
                        ELSE rec.pix)

RECURSIVE merge_to_flat_image_from(_, _, _, _, _)
merge_to_flat_image_from(h, ll, pix, flags, i) ==
    IF i > Len(h.ll[ll].elems) THEN pix
    ELSE merge_to_flat_image_from(h, ll, layer_merged(pix, h.ly[h.ll[ll].elems[i]], flags),
                                  flags, i + 1)

DP_layer_list_merge_to_flat_image(h, ll, pix, flags) ==
    merge_to_flat_image_from(h, ll, pix, flags, 1)

flat_image_background(h, cs, background_tile) ==
    IF background_tile = NULL THEN {}
    ELSE Paint({}, Rect(0, 0, h.cs[cs].width, h.cs[cs].height), h.tile[background_tile].pixel)

DP_canvas_state_to_flat_image_with_background(h, cs, flags) ==
    IF h.cs[cs].width <= 0 \/ h.cs[cs].height <= 0
    THEN NoImage("Can't create a flat image with zero pixels")
    ELSE [width |-> h.cs[cs].width, height |-> h.cs[cs].height,
          pixels |-> DP_layer_list_merge_to_flat_image(
                         h, h.cs[cs].layers,
                         flat_image_background(h, cs, h.cs[cs].background_tile), flags)]

(* The image of snapshot cs, none when it has no pixels.  The layer the    *)
(* image is flattened into is released before the function returns.        *)
DP_canvas_state_to_flat_image(h, cs, flags) ==
    IF h.cs[cs].width <= 0 \/ h.cs[cs].height <= 0
    THEN NoImage("Can't create a flat image with zero pixels")
    ELSE [width |-> h.cs[cs].width, height |-> h.cs[cs].height,
          pixels |-> DP_layer_list_merge_to_flat_image(
                         h, h.cs[cs].layers,
                         flat_image_background(
                             h, cs,
                             IF DP_FLAT_IMAGE_INCLUDE_BACKGROUND \in flags
                             THEN h.cs[cs].background_tile ELSE NULL),
                         flags)]

(* ------------------------------- render -------------------------------- *)
(* What DP_canvas_state_render does to the target, in order: the resize,   *)
(* then one rendered tile per call of render_tile.                         *)
RenderTiles(calls) == [k \in DOMAIN calls |-> [ev |-> "tile", index |-> calls[k]]]

DP_canvas_state_render_tiles_first(h, cs, d) ==
    RenderTiles(DP_canvas_diff_each_index(d))
        \o << [ev |-> "resize", width |-> h.cs[cs].width, height |-> h.cs[cs].height] >>

DP_canvas_state_render(h, cs, d) ==
    << [ev |-> "resize", width |-> h.cs[cs].width, height |-> h.cs[cs].height] >>
        \o RenderTiles(DP_canvas_diff_each_index(d))

(***************************************************************************)
(* An observer of the snapshots: between commands it compares the current  *)
(* snapshot with an earlier one, renders what changed, or flattens the     *)
(* snapshot into an image.  diff is the observer's one diff object and     *)
(* view tells what it did last.                                            *)
(***************************************************************************)
ViewHistory ==
    << MsgCanvasResize(0, 65, 2, 0),
       MsgLayerCreate(1, 0, BLANK, FALSE, FALSE),
       MsgCanvasBackground(FALSE, RED),
       MsgPutImage(1, "NORMAL", RED) >>

Viewed(d, v) ==
    /\ diff' = d
    /\ view' = v
    /\ steps' = steps + 1
    /\ UNCHANGED <<heap, cur, log, pre, crashed, threads>>

(* The snapshot a diff is taken against: none, the current one itself, or  *)
(* the one the last command was applied to.                                *)
Previous == {NULL, cur} \cup {log[k].input : k \in {Len(log)} \ {0}}

CanvasStateDiff ==
    /\ Ready
    /\ \E prev_or_null \in Previous :
           \E layer_props_changed \in BOOLEAN :
               Viewed(DP_canvas_state_diff(heap, cur, prev_or_null, diff, layer_props_changed),
                      [op |-> "diff", cs |-> cur, prev |-> prev_or_null, before |-> diff])

(* The observer renders a snapshot with the diff it took for it. *)
CanvasStateRender ==
    /\ Ready
    /\ view.op = "diff"
    /\ view.cs = cur
    /\ Viewed(diff, [op |-> "render", cs |-> cur,
                     events |-> DP_canvas_state_render(heap, cur, diff)])

CanvasStateToFlatImage ==
    /\ Ready
    /\ \E flags \in SUBSET {DP_FLAT_IMAGE_INCLUDE_BACKGROUND, DP_FLAT_IMAGE_INCLUDE_SUBLAYERS} :
           Viewed(diff, [op |-> "to_flat_image", cs |-> cur, flags |-> flags,
                         ret |-> DP_canvas_state_to_flat_image(heap, cur, flags)])

(* An image put on the second tile of the first row. *)
PutImageAt ==
    /\ Ready
    /\ Handle([MsgPutImage(1, "NORMAL", RED) EXCEPT !.x = 64], FALSE, FALSE)

InitView ==
    \E k \in 0 .. Len(ViewHistory) :
        \E m \in {Run(Fresh, SubSeq(ViewHistory, 1, k))} :
            /\ heap = m.heap
            /\ cur = m.cur
            /\ log = m.log
            /\ pre = m.pre
            /\ crashed = m.crashed
            /\ steps = 0
            /\ threads = NoCalls
            /\ diff = DP_canvas_diff_new
            /\ view = NoView

NextView ==
    \/ CanvasResize
    \/ LayerCreate
    \/ LayerAttr
    \/ LayerVisibility
    \/ CanvasBackground
    \/ PutImage
    \/ PutImageAt
    \/ CanvasStateDiff
    \/ CanvasStateRender
    \/ CanvasStateToFlatImage

SpecView == InitView /\ [][NextView]_vars

(***************************************************************************)
(* Claims about comparing snapshots.                                       *)
(***************************************************************************)
(* The snapshot the last DP_canvas_state_diff was called for. *)
Diffed == heap.cs[view.cs]

AllTiles(cs) == 0 .. (DP_tile_total_round(cs.width, cs.height) - 1)

(* C21: comparing a snapshot with itself leaves no tile marked changed,    *)
(* whatever bits an earlier use left in the diff object:                   *)
(* DP_canvas_diff_tiles_changed answers false.                             *)
C21_SelfDiffClean ==
    (view.op = "diff" /\ view.prev = view.cs) =>
        /\ diff.count = DP_tile_total_round(Diffed.width, Diffed.height)
        /\ ChangedTiles(diff) = {}
        /\ ~DP_canvas_diff_tiles_changed(diff)

(* A snapshot of two tiles was compared with itself with a diff object     *)
(* that had both tiles marked changed.                                     *)
C21_Witness ==
    /\ view.op = "diff"
    /\ view.prev = view.cs
    /\ diff.count = 2
    /\ view.before.count = 2
    /\ ChangedTiles(view.before) = {0, 1}

(* Tile i differs between the layer lists of the two compared snapshots:   *)
(* a layer of the new one, matched by id with a layer of the old one, has  *)
(* another rendering property or holds another tile object at i.           *)
LayerListMarks(i) ==
    \E a \in Range(LayersOf(heap, view.cs)) :
        \E b \in Range(LayersOf(heap, view.prev)) :
            /\ a.id = b.id
            /\ \/ <<a.opacity, a.blend_mode, a.visible, a.censored>>
                      # <<b.opacity, b.blend_mode, b.visible, b.censored>>
               \/ {e \in a.tiles : e[1] = i} # {e \in b.tiles : e[1] = i}

SameFrameAsPrevious ==
    /\ Diffed.background_tile = heap.cs[view.prev].background_tile
    /\ Diffed.width = heap.cs[view.prev].width
    /\ Diffed.height = heap.cs[view.prev].height

(* C22: DP_canvas_state_diff(new, old) covers the tiles of new.  Without   *)
(* old the diff is begun from size (0, 0) and every tile is marked         *)
(* changed; with an old snapshot of another background tile object, width  *)
(* or height every tile is marked changed; else a tile is marked changed   *)
(* only if the layer list diff marks it.                                   *)
C22_DiffCases ==
    view.op = "diff" =>
        /\ diff.count = DP_tile_total_round(Diffed.width, Diffed.height)
        /\ view.prev = NULL =>
               /\ ChangedTiles(diff) = AllTiles(Diffed)
               /\ diff = DP_canvas_diff_begin(view.before, 0, 0, Diffed.width, Diffed.height,
                                              diff.layer_props_changed)
        /\ (view.prev # NULL /\ ~SameFrameAsPrevious) =>
               ChangedTiles(diff) = AllTiles(Diffed)
        /\ (view.prev # NULL /\ SameFrameAsPrevious) =>
               \A i \in ChangedTiles(diff) : view.prev # view.cs /\ LayerListMarks(i)

(* A snapshot of two tiles was compared with the one before it, of the     *)
(* same size and background, and one tile of the two is marked changed.    *)
C22_Witness ==
    /\ view.op = "diff"
    /\ view.prev # NULL
    /\ view.prev # view.cs
    /\ SameFrameAsPrevious
    /\ diff.count = 2
    /\ Cardinality(ChangedTiles(diff)) = 1

(* The last two calls are the same PutImage, both successful, the second   *)
(* applied to the result of the first.                                     *)
TwoSamePutImages ==
    /\ Len(log) >= 2
    /\ CallBefore.msg.type = "PUT_IMAGE"
    /\ LastCall.msg = CallBefore.msg
    /\ Succeeded(CallBefore)
    /\ Succeeded(LastCall)
    /\ LastCall.input = CallBefore.ret

(* The result of the last call was compared with the snapshot the call was *)
(* applied to.                                                             *)
ComparedLastTwo ==
    /\ view.op = "diff"
    /\ view.cs = LastCall.ret
    /\ view.prev = LastCall.input

FlatImagesEqual ==
    \A flags \in SUBSET {DP_FLAT_IMAGE_INCLUDE_BACKGROUND, DP_FLAT_IMAGE_INCLUDE_SUBLAYERS} :
        DP_canvas_state_to_flat_image(heap, LastCall.ret, flags)
            = DP_canvas_state_to_flat_image(heap, LastCall.input, flags)

(* The tiles the image of the last PutImage overlaps on the canvas. *)
ImageTiles ==
    {tile_index_at(p, Diffed.width) :
        p \in Rect(LastCall.msg.x, LastCall.msg.y, LastCall.msg.x + LastCall.msg.width,
                   LastCall.msg.y + LastCall.msg.height)
                  \cap Rect(0, 0, Diffed.width, Diffed.height)}

Flattened == heap.cs[view.cs]

IsImage(img) == DOMAIN img = {"width", "height", "pixels"}

(* The pixels the visible layers of the flattened snapshot hold, those of  *)
(* their sublayers included when the flags ask for them.                   *)
LayerPixels ==
    UNION {rec.pix \cup (IF DP_FLAT_IMAGE_INCLUDE_SUBLAYERS \in view.flags
                         THEN UNION {s.pix : s \in Range(rec.subs)} ELSE {}) :
              rec \in {r \in Range(LayersOf(heap, view.cs)) : r.visible}}

(* Without the include-background flag every pixel of the image is a       *)
(* pixel of a layer; with it the background shows wherever no layer has a  *)
(* pixel.                                                                  *)
BackgroundWhenAsked ==
    IF DP_FLAT_IMAGE_INCLUDE_BACKGROUND \notin view.flags
    THEN view.ret.pixels \subseteq LayerPixels
    ELSE Flattened.background_tile # NULL =>
             \A p \in Rect(0, 0, Flattened.width, Flattened.height) :
                 \/ \E t \in LayerPixels : <<t[1], t[2]>> = p
                 \/ <<p[1], p[2], heap.tile[Flattened.background_tile].pixel>>
                        \in view.ret.pixels

(* C24 as stated: for every snapshot, the initial one included,            *)
(* DP_canvas_state_to_flat_image returns an image of the snapshot's width  *)
(* and height, to which the background tile contributes only when the      *)
(* include-background flag is set.                                         *)
C24_FlatImageAlways ==
    view.op = "to_flat_image" =>
        /\ IsImage(view.ret)
        /\ view.ret.width = Flattened.width
        /\ view.ret.height = Flattened.height
        /\ BackgroundWhenAsked

(* C24, amended: for a snapshot of positive width and height               *)
(* DP_canvas_state_to_flat_image returns an image of that width and        *)
(* height, to which the background tile contributes only when the          *)
(* include-background flag is set; for a snapshot without pixels, such as  *)
(* the initial one, it returns no image and sets an error.                 *)
C24_FlatImageWhenPixels ==
    view.op = "to_flat_image" =>
        IF Flattened.width > 0 /\ Flattened.height > 0
        THEN /\ IsImage(view.ret)
             /\ view.ret.width = Flattened.width
             /\ view.ret.height = Flattened.height
             /\ BackgroundWhenAsked
        ELSE view.ret = NoImage("Can't create a flat image with zero pixels")

(* A snapshot with a background tile was flattened without the flag and    *)
(* the image has a blank pixel.                                            *)
C24_Witness ==
    /\ view.op = "to_flat_image"
    /\ DP_FLAT_IMAGE_INCLUDE_BACKGROUND \notin view.flags
    /\ Flattened.background_tile # NULL
    /\ heap.tile[Flattened.background_tile].pixel # BLANK
    /\ IsImage(view.ret)
    /\ view.ret.width = 65
    /\ \E p \in Rect(0, 0, Flattened.width, Flattened.height) :
           \A t \in view.ret.pixels : <<t[1], t[2]>> # p

(* The step is a call of DP_canvas_state_render. *)
RenderStep == view'.op = "render" /\ steps' = steps + 1 /\ log' = log

(* The tiles rendered, in the order of rendering. *)
Rendered(events) == [k \in 1 .. (Len(events) - 1) |-> events[k + 1].index]

(* C25: DP_canvas_state_render, given the diff taken for the snapshot,     *)
(* first resizes the target to the snapshot's width and height and only    *)
(* then renders tiles: exactly the tiles the diff marks changed, each      *)
(* once, in ascending order, each below the snapshot's tile count; the     *)
(* changed bits of the diff stay as they were.                             *)
C25_RenderChanged ==
    [][RenderStep =>
          /\ view'.events # <<>>
          /\ view'.events[1] = [ev |-> "resize", width |-> heap.cs[cur].width,
                                height |-> heap.cs[cur].height]
          /\ \A k \in 2 .. Len(view'.events) : view'.events[k].ev = "tile"
          /\ Ascending(Rendered(view'.events))
          /\ Range(Rendered(view'.events)) = ChangedTiles(diff)
          /\ \A i \in Range(Rendered(view'.events)) :
                 i >= 0 /\ i < DP_tile_total_round(heap.cs[cur].width, heap.cs[cur].height)
          /\ diff' = diff]_vars

(* A snapshot of two tiles was rendered with a diff that marks one of them *)
(* changed.                                                                *)
C25_Witness ==
    /\ view.op = "render"
    /\ diff.count = 2
    /\ Cardinality(ChangedTiles(diff)) = 1
    /\ Len(view.events) = 2

(***************************************************************************)
(* Images.  An image is its width, its height and the set of its non-zero  *)
(* pixels <<x, y, colour>>.                                                *)
(***************************************************************************)
DP_image_new(width, height) == [width |-> width, height |-> height, pixels |-> {}]

(* The assertions at the head of copy_pixels. *)
copy_pixels_asserted(dst, src, dst_x, dst_y, src_x, src_y, copy_width, copy_height) ==
    /\ dst_x >= 0
    /\ dst_y >= 0
    /\ src_x >= 0
    /\ src_y >= 0
    /\ copy_width >= 0
    /\ copy_height >= 0
    /\ dst_x + copy_width <= dst.width
    /\ src_x + copy_width <= src.width
    /\ dst_y + copy_height <= dst.height
    /\ src_y + copy_height <= src.height

(* The rows copied: copy_height rows of copy_width pixels from             *)
(* (src_x, src_y) of src to (dst_x, dst_y) of dst.                         *)
copy_pixels(dst, src, dst_x, dst_y, src_x, src_y, copy_width, copy_height) ==
    [dst EXCEPT !.pixels =
        {t \in @ : <<t[1], t[2]>> \notin Rect(dst_x, dst_y, dst_x + copy_width,
                                              dst_y + copy_height)}
            \cup {<<(t[1] - src_x) + dst_x, (t[2] - src_y) + dst_y, t[3]>> :
                     t \in {u \in src.pixels :
                               <<u[1], u[2]>> \in Rect(src_x, src_y, src_x + copy_width,
                                                       src_y + copy_height)}}]

(* What memory that was written out of bounds may hold afterwards. *)
GARBAGE == <<43690, 43690>>

(* The outcomes of the call of copy_pixels in DP_image_new_subimage.  When *)
(* an assertion does not hold, a build with assertions aborts; a build     *)
(* without them copies no row when copy_height <= 0 and else calls memcpy  *)
(* with a negative copy_width converted to size_t, which is undefined:     *)
(* the process dies or goes on with memory overwritten.                    *)
subimage_copied(sub, img, dst_x, dst_y, src_x, src_y, copy_width, copy_height, asserts) ==
    IF copy_pixels_asserted(sub, img, dst_x, dst_y, src_x, src_y, copy_width, copy_height)
    THEN {[ret |-> copy_pixels(sub, img, dst_x, dst_y, src_x, src_y, copy_width, copy_height),
           crash |-> FALSE]}
    ELSE IF asserts THEN {[ret |-> sub, crash |-> TRUE]}
    ELSE IF copy_height <= 0 THEN {[ret |-> sub, crash |-> FALSE]}
    ELSE {[ret |-> sub, crash |-> TRUE],
          [ret |-> [sub EXCEPT !.pixels = Paint({}, Rect(0, 0, sub.width, sub.height), GARBAGE)],
           crash |-> FALSE]}

subimage_from(img, width, height, dst_x, dst_y, src_x, src_y, asserts) ==
    subimage_copied(DP_image_new(width, height), img, dst_x, dst_y, src_x, src_y,
                    DP_min_int(width - dst_x, img.width - src_x),
                    DP_min_int(height - dst_y, img.height - src_y), asserts)

(* The possible outcomes of DP_image_new_subimage, for width, height >= 0. *)
DP_image_new_subimage(img, x, y, width, height, asserts) ==
    subimage_from(img, width, height, IF x < 0 THEN -x ELSE 0, IF y < 0 THEN -y ELSE 0,
                  IF x > 0 THEN x ELSE 0, IF y > 0 THEN y ELSE 0, asserts)

(* ------------------------- monochrome images --------------------------- *)
WHITE == <<65535, 65535>>

(* byte & bit_mask, for a mask of one bit. *)
bit_and(byte, bit_mask) == ((byte \div bit_mask) % 2) * bit_mask

monochrome_pixel(x, y, line_width, buffer) ==
    IF bit_and(buffer[(y * line_width + x \div 8) + 1], 2 ^ (7 - (x % 8))) # 0
    THEN WHITE ELSE BLANK

monochrome_pixel_lsb_first(x, y, line_width, buffer) ==
    IF bit_and(buffer[(y * line_width + x \div 8) + 1], 2 ^ (x % 8)) # 0
    THEN WHITE ELSE BLANK

extract_monochrome_lsb_first(width, height, line_width, buffer) ==
    [width |-> width, height |-> height,
     pixels |-> {t \in {<<p[1], p[2], monochrome_pixel_lsb_first(p[1], p[2], line_width, buffer)>> :
                           p \in Rect(0, 0, width, height)} : t[3] # BLANK}]

extract_monochrome(width, height, line_width, buffer) ==
    [width |-> width, height |-> height,
     pixels |-> {t \in {<<p[1], p[2], monochrome_pixel(p[1], p[2], line_width, buffer)>> :
                           p \in Rect(0, 0, width, height)} : t[3] # BLANK}]

(* The buffer handed to the codec: one of out_size bytes when that is the  *)
(* size expected, none else.                                               *)
get_monochrome_buffer(out_size, line_width, line_count) ==
    out_size = line_width * line_count

(* compress.c is not part of the sources at hand.  A payload is the bytes  *)
(* it inflates to and whether it is a deflate stream at all; inflating     *)
(* asks for a buffer of the size of the output and fails without one.      *)
DP_compress_inflate(in, line_width, line_count) ==
    in.inflates /\ get_monochrome_buffer(Len(in.bytes), line_width, line_count)

monochrome_inflated(width, height, in, line_width) ==
    IF DP_compress_inflate(in, line_width, height)
    THEN extract_monochrome(width, height, line_width, in.bytes)
    ELSE NoImage("Monochrome decompression failed")

DP_image_new_from_compressed_monochrome(width, height, in) ==
    monochrome_inflated(width, height, in, ((width + 31) \div 32) * 4)

(***************************************************************************)
(* One call of an image function, on its own: view tells the call and its  *)
(* outcome.                                                                *)
(***************************************************************************)
SourceImages ==
    { [width |-> 2, height |-> 2,
       pixels |-> {<<0, 0, <<1, 1>>>>, <<1, 0, <<1, 2>>>>, <<0, 1, <<1, 3>>>>, <<1, 1, <<1, 4>>>>}],
      [width |-> 3, height |-> 1, pixels |-> {<<0, 0, <<2, 1>>>>, <<2, 0, <<2, 3>>>>}] }

MaxOffset == 4

ImageNewSubimage ==
    /\ ~crashed
    /\ view = NoView
    /\ \E img \in SourceImages :
        \E x, y \in (-MaxOffset) .. MaxOffset :
        \E width, height \in 0 .. 2 :
        \E asserts \in BOOLEAN :
        \E r \in DP_image_new_subimage(img, x, y, width, height, asserts) :
            /\ view' = [op |-> "subimage", img |-> img, x |-> x, y |-> y, width |-> width,
                        height |-> height, asserts |-> asserts, ret |-> r.ret]
            /\ crashed' = r.crash
            /\ UNCHANGED <<heap, cur, log, pre, steps, threads, diff>>

(* Payloads: byte patterns of the lengths that one or two lines of up to   *)
(* 40 pixels take, and of lengths that no image takes.                     *)
BytePatterns == {0, 255, 128, 1, 165}

Payloads ==
    {[inflates |-> TRUE, bytes |-> [k \in 1 .. n |-> (b * k) % 256]] :
         n \in {0, 3, 4, 5, 8, 16}, b \in BytePatterns}
        \cup {[inflates |-> FALSE, bytes |-> <<>>]}

MonochromeWidths == {0, 1, 8, 9, 31, 32, 33}

ImageNewFromCompressedMonochrome ==
    /\ ~crashed
    /\ view = NoView
    /\ \E width \in MonochromeWidths :
        \E height \in 0 .. 2 :
        \E in \in Payloads :
            /\ view' = [op |-> "monochrome", width |-> width, height |-> height, in |-> in,
                        ret |-> DP_image_new_from_compressed_monochrome(width, height, in)]
            /\ UNCHANGED <<heap, cur, log, pre, crashed, steps, threads, diff>>

(***************************************************************************)
(* Images from compressed pixels.  An image payload is whether its header  *)
(* can be read, the size of the output the header announces, whether the   *)
(* stream behind it inflates to the end, and the bytes it inflates to.     *)
(***************************************************************************)
(* The buffer handed to the codec: the pixels of a new image when the size *)
(* asked for is that of width x height pixels of four bytes, none else.    *)
get_output_buffer(out_size, width, height) == out_size = (width * height) * 4

(* Pixel i of the buffer, its four bytes in the order of the host. *)
buffer_pixel(bytes, i) ==
    <<bytes[4 * i + 4] * 256 + bytes[4 * i + 3], bytes[4 * i + 2] * 256 + bytes[4 * i + 1]>>

image_inflated(width, height, bytes) ==
    [width |-> width, height |-> height,
     pixels |-> {t \in {<<i % width, i \div width, buffer_pixel(bytes, i)>> :
                           i \in 0 .. (width * height - 1)} : t[3] # BLANK}]

DP_image_new_from_compressed_leak(width, height, in) ==
    IF ~in.header \/ ~get_output_buffer(in.size, width, height)
    THEN [ret |-> NoImage("Image decompression failed"), buffer |-> FALSE,
          allocated |-> 0, freed |-> 0]
    ELSE IF in.inflates
    THEN [ret |-> image_inflated(width, height, in.bytes), buffer |-> TRUE,
          allocated |-> 1, freed |-> 0]
    ELSE [ret |-> NoImage("Image decompression failed"), buffer |-> TRUE,
          allocated |-> 1, freed |-> 0]

(* The outcome of DP_image_new_from_compressed: what it returns, whether   *)
(* the codec got a buffer, and how many images were allocated and freed.   *)
(* DP_image_free of the NULL that args.img still is when no buffer was     *)
(* handed out frees nothing.                                               *)
DP_image_new_from_compressed(width, height, in) ==
    IF ~in.header \/ ~get_output_buffer(in.size, width, height)
    THEN [ret |-> NoImage("Image decompression failed"), buffer |-> FALSE,
          allocated |-> 0, freed |-> 0]
    ELSE IF in.inflates
    THEN [ret |-> image_inflated(width, height, in.bytes), buffer |-> TRUE,
          allocated |-> 1, freed |-> 0]
    ELSE [ret |-> NoImage("Image decompression failed"), buffer |-> TRUE,
          allocated |-> 1, freed |-> 1]

ImagePayloads ==
    {[header |-> TRUE, size |-> n, inflates |-> TRUE,
      bytes |-> [k \in 1 .. n |-> (b * k) % 256]] : n \in {0, 4, 6, 8, 16}, b \in {0, 255, 165}}
        \cup {[header |-> TRUE, size |-> n, inflates |-> FALSE, bytes |-> <<>>] :
                 n \in {0, 4, 6, 8, 16}}
        \cup {[header |-> FALSE, size |-> 0, inflates |-> FALSE, bytes |-> <<>>]}

ImageNewFromCompressed ==
    /\ ~crashed
    /\ view = NoView
    /\ \E width, height \in 0 .. 2 :
       \E in \in ImagePayloads :
       \E r \in {DP_image_new_from_compressed(width, height, in)} :
           /\ view' = [op |-> "compressed", width |-> width, height |-> height, in |-> in,
                       ret |-> r.ret, buffer |-> r.buffer, allocated |-> r.allocated,
                       freed |-> r.freed]
           /\ UNCHANGED <<heap, cur, log, pre, crashed, steps, threads, diff>>

(***************************************************************************)
(* DP_image_png_read.  libpng and the input stream are the surroundings:   *)
(* an input says whether each struct can be created, how the read of the   *)
(* stream goes, and the header, row length and rows libpng comes up with.  *)
(***************************************************************************)
(* png_read_png under png_set_user_limits: does it come back? *)
png_read_png(in) ==
    /\ in.stream = "ok"
    /\ in.width <= INT16_MAX
    /\ in.height <= INT16_MAX

image_from_rows(width, height, rows) ==
    [width |-> width, height |-> height,
     pixels |-> {t \in {<<x, y, buffer_pixel(rows[y + 1], x)>> :
                           x \in 0 .. (width - 1), y \in 0 .. (height - 1)} : t[3] # BLANK}]

DP_image_png_read(in) ==
    IF ~in.read_struct
    THEN [ret |-> NoImage("Can't create PNG read struct"), created |-> 0, destroyed |-> 0]
    ELSE IF ~in.info_struct
    THEN [ret |-> NoImage("Can't create PNG read info struct"), created |-> 1, destroyed |-> 0]
    ELSE IF ~png_read_png(in) \/ in.rowbytes # in.width * 4
    THEN [ret |-> NoImage("PNG error"), created |-> 1, destroyed |-> 1]
    ELSE [ret |-> image_from_rows(in.width, in.height, in.rows), created |-> 1, destroyed |-> 1]

PngRows == {<<255, 0, 0, 255, 0, 165, 0, 255>>, <<0, 0, 0, 0, 1, 2, 3, 4>>}

PngInputs ==
    [read_struct : BOOLEAN, info_struct : BOOLEAN,
     stream : {"ok", "error", "short", "corrupt"},
     width : {1, 2, INT16_MAX + 1}, height : {1, 2}, rowbytes : {3, 4, 8},
     rows : [1 .. 2 -> PngRows]]

ImagePngRead ==
    /\ ~crashed
    /\ view = NoView
    /\ \E in \in PngInputs :
       \E r \in {DP_image_png_read(in)} :
           /\ view' = [op |-> "png", in |-> in, ret |-> r.ret, created |-> r.created,
                       destroyed |-> r.destroyed]
           /\ UNCHANGED <<heap, cur, log, pre, crashed, steps, threads, diff>>

InitImage ==
    /\ heap = Fresh.heap
    /\ cur = Fresh.cur
    /\ log = Fresh.log
    /\ pre = Fresh.pre
    /\ crashed = Fresh.crashed
    /\ steps = 0
    /\ threads = NoCalls
    /\ diff = DP_canvas_diff_new
    /\ view = NoView

NextImage ==
    \/ ImageNewSubimage
    \/ ImageNewFromCompressedMonochrome
    \/ ImageNewFromCompressed
    \/ ImagePngRead

SpecImage == InitImage /\ [][NextImage]_vars

(***************************************************************************)
(* Claims about images.                                                    *)
(***************************************************************************)
(* The colour of pixel p of image img, blank when p lies outside of it. *)
PixelAt(img, p) ==
    IF \E t \in img.pixels : <<t[1], t[2]>> = p
    THEN (CHOOSE t \in img.pixels : <<t[1], t[2]>> = p)[3]
    ELSE BLANK

(* C29: for every rectangle of width, height >= 0, also one that lies      *)
(* partly or wholly outside the source, DP_image_new_subimage returns an   *)
(* image of that width and height with the source's pixel wherever the     *)
(* rectangle lies inside the source and zero elsewhere, and no assertion   *)
(* of copy_pixels is tripped.                                              *)
C29_SubimageTotal ==
    view.op = "subimage" =>
        /\ ~crashed
        /\ view.ret.width = view.width
        /\ view.ret.height = view.height
        /\ \A p \in Rect(0, 0, view.width, view.height) :
               PixelAt(view.ret, p) = PixelAt(view.img, <<view.x + p[1], view.y + p[2]>>)

(* The number of bytes of a line of width pixels: one bit per pixel,       *)
(* padded to whole words of 32 bits.                                       *)
LineBytes(width) ==
    4 * (CHOOSE k \in 0 .. width : k * 32 >= width /\ (k = 0 \/ (k - 1) * 32 < width))

(* Bit n of byte is set, bit 0 being the least significant. *)
BitSet(byte, n) == byte % (2 ^ (n + 1)) >= 2 ^ n

(* Byte number c of a line with every bit that belongs to no pixel set. *)
PaddingSet(byte, c, width) ==
    IF width - 8 * c >= 8 THEN byte
    ELSE IF width - 8 * c <= 0 THEN 255
    ELSE (byte \div (2 ^ (8 - (width - 8 * c)))) * (2 ^ (8 - (width - 8 * c)))
             + ((2 ^ (8 - (width - 8 * c))) - 1)

(* C30: DP_image_new_from_compressed_monochrome accepts a payload exactly  *)
(* when it inflates to ((width + 31) / 32 * 4) * height bytes; pixel       *)
(* (x, y) of the image is 0xffffffff when bit 7 - x mod 8 of byte          *)
(* y * line_width + x / 8 is set and 0 when it is not, so that the padding *)
(* bits of a line make no difference; any other size gives no image.       *)
C30_MonochromeDecoded ==
    view.op = "monochrome" =>
        IF view.in.inflates /\ Len(view.in.bytes) = LineBytes(view.width) * view.height
        THEN /\ IsImage(view.ret)
             /\ view.ret.width = view.width
             /\ view.ret.height = view.height
             /\ \A p \in Rect(0, 0, view.width, view.height) :
                    PixelAt(view.ret, p) =
                        IF BitSet(view.in.bytes[(p[2] * LineBytes(view.width) + p[1] \div 8) + 1],
                                  7 - (p[1] % 8))
                        THEN WHITE ELSE BLANK
             /\ \A t \in view.ret.pixels :
                    <<t[1], t[2]>> \in Rect(0, 0, view.width, view.height)
             /\ view.ret = DP_image_new_from_compressed_monochrome(
                               view.width, view.height,
                               [view.in EXCEPT !.bytes =
                                   [k \in DOMAIN @ |->
                                       PaddingSet(@[k], (k - 1) % LineBytes(view.width),
                                                  view.width)]])
        ELSE ~IsImage(view.ret)

(* Two lines of 9 pixels were decoded from 8 bytes: the image has white    *)
(* and blank pixels, and the payload has padding bits set and clear.       *)
C30_Witness ==
    /\ view.op = "monochrome"
    /\ view.width = 9
    /\ view.height = 2
    /\ IsImage(view.ret)
    /\ \E p, q \in Rect(0, 0, 9, 2) :
           PixelAt(view.ret, p) = WHITE /\ PixelAt(view.ret, q) = BLANK
    /\ \E j, k \in 2 .. 4 : view.in.bytes[j] # 0 /\ view.in.bytes[k] # 255

(* C31: DP_image_new_from_compressed hands the codec a buffer exactly when *)
(* the size asked for is width * height * 4 bytes; it returns an image     *)
(* only when inflating succeeded, an image of the given size; when         *)
(* inflating fails, also after the buffer was handed out, it returns no    *)
(* image and every image it allocated is freed.                            *)
C31_CompressedImage ==
    view.op = "compressed" =>
        /\ view.buffer <=> (view.in.header /\ view.in.size = view.width * view.height * 4)
        /\ IsImage(view.ret) <=> (view.buffer /\ view.in.inflates)
        /\ IsImage(view.ret) =>
               /\ view.ret.width = view.width
               /\ view.ret.height = view.height
               /\ view.allocated = 1
               /\ view.freed = 0
        /\ ~IsImage(view.ret) => view.allocated = view.freed

(* Inflating failed after the buffer of a 2 x 2 image was handed out. *)
C31_Witness ==
    /\ view.op = "compressed"
    /\ view.width = 2
    /\ view.height = 2
    /\ view.buffer
    /\ ~view.in.inflates
    /\ ~IsImage(view.ret)
    /\ view.allocated = 1

(***************************************************************************)
(* DP_image_transform_draw.  The rasterizer and the draw context are not   *)
(* part of the sources at hand: a render pass hands the spans of the       *)
(* outline to render_spans in order, the first skip_spans of them left     *)
(* out, and stops with ErrRaster_OutOfMemory when its pool is too small    *)
(* for what is left.  view is the call in progress: where it is, the pool  *)
(* size, the rasterizers created and released, and the spans rendered.     *)
(***************************************************************************)
(* The cap of the raster pool, scaled down. *)
DP_DRAW_CONTEXT_RASTER_POOL_MAX_SIZE == 16

(* The spans of the outline. *)
NumSpans == 3

Returned(draw, ret) == [draw EXCEPT !.pc = "return", !.ret = ret]

(* The call up to the loop. *)
transform_draw_begin(invertible, raster_new_ok, raster_pool_size) ==
    [op |-> "draw", pc |-> IF invertible /\ raster_new_ok THEN "render" ELSE "return",
     ret |-> FALSE, invertible |-> invertible, raster_pool_size |-> raster_pool_size,
     pool |-> raster_pool_size, news |-> IF invertible /\ raster_new_ok THEN 1 ELSE 0,
     dones |-> 0, rendered_spans |-> 0, rendered |-> <<>>, passes |-> 0, error |-> "none"]

(* A pass rendered k spans after those it skipped. *)
pass_rendered(draw, k, error) ==
    [draw EXCEPT !.rendered = @ \o [j \in 1 .. k |-> draw.rendered_spans + j],
                 !.passes = @ + 1, !.error = error]

(* The rest of an iteration whose pass ran out of memory. *)
out_of_memory(draw, k, raster_new_ok) ==
    IF draw.raster_pool_size * 2 > DP_DRAW_CONTEXT_RASTER_POOL_MAX_SIZE
    THEN Returned([draw EXCEPT !.raster_pool_size = @ * 2], FALSE)
    ELSE IF raster_new_ok
    THEN [draw EXCEPT !.raster_pool_size = @ * 2, !.pool = draw.raster_pool_size * 2,
                      !.rendered_spans = @ + k, !.dones = @ + 1, !.news = @ + 1]
    ELSE Returned([draw EXCEPT !.raster_pool_size = @ * 2, !.pool = draw.raster_pool_size * 2,
                               !.rendered_spans = @ + k, !.dones = @ + 1], FALSE)

out_of_memory_late_cap(draw, k, raster_new_ok) ==
    IF draw.raster_pool_size > DP_DRAW_CONTEXT_RASTER_POOL_MAX_SIZE
    THEN Returned([draw EXCEPT !.raster_pool_size = @ * 2], FALSE)
    ELSE IF raster_new_ok
    THEN [draw EXCEPT !.raster_pool_size = @ * 2, !.pool = draw.raster_pool_size * 2,
                      !.rendered_spans = @ + k, !.dones = @ + 1, !.news = @ + 1]
    ELSE Returned([draw EXCEPT !.raster_pool_size = @ * 2, !.pool = draw.raster_pool_size * 2,
                               !.rendered_spans = @ + k, !.dones = @ + 1], FALSE)

transform_draw_pass_late_cap(draw, k, error, raster_new_ok) ==
    IF error = "ErrRaster_OutOfMemory"
    THEN out_of_memory_late_cap(pass_rendered(draw, k, error), k, raster_new_ok)
    ELSE Returned([pass_rendered(draw, k, error) EXCEPT !.dones = @ + 1], TRUE)

(* One iteration of the loop: a render pass and what follows it. *)
transform_draw_pass(draw, k, error, raster_new_ok) ==
    IF error = "ErrRaster_OutOfMemory"
    THEN out_of_memory(pass_rendered(draw, k, error), k, raster_new_ok)
    ELSE Returned([pass_rendered(draw, k, error) EXCEPT !.dones = @ + 1], TRUE)

Drawing(v) ==
    /\ view' = v
    /\ UNCHANGED <<heap, cur, log, pre, crashed, steps, threads, diff>>

(* The draw context's pool has between one byte and the cap. *)
TransformDrawBegin ==
    /\ ~crashed
    /\ view = NoView
    /\ \E invertible, raster_new_ok \in BOOLEAN :
       \E raster_pool_size \in 1 .. DP_DRAW_CONTEXT_RASTER_POOL_MAX_SIZE :
           Drawing(transform_draw_begin(invertible, raster_new_ok, raster_pool_size))

(* A pass that does not run out of memory renders every span left unless   *)
(* it stops with another error.                                            *)
TransformDrawPass ==
    /\ ~crashed
    /\ view.op = "draw"
    /\ view.pc = "render"
    /\ \E error \in {"none", "ErrRaster_OutOfMemory", "ErrRaster_Invalid_Outline"} :
       \E k \in 0 .. (NumSpans - view.rendered_spans) :
       \E raster_new_ok \in BOOLEAN :
           /\ error = "none" => k = NumSpans - view.rendered_spans
           /\ Drawing(transform_draw_pass(view, k, error, raster_new_ok))

InitDraw == InitImage

NextDraw ==
    \/ TransformDrawBegin
    \/ TransformDrawPass

SpecDraw == InitDraw /\ [][NextDraw]_vars

(* The loop goes on as long as it can. *)
SpecDrawLive == SpecDraw /\ WF_vars(TransformDrawPass)

(***************************************************************************)
(* C32: the retry loop of DP_image_transform_draw comes to an end for      *)
(* every positive pool size: a pass that runs out of memory doubles the    *)
(* pool size, the call fails as soon as the doubled size is beyond the     *)
(* cap, so that the pool is never resized beyond it, the call succeeds     *)
(* only after a pass that did not run out of memory, and a matrix that     *)
(* cannot be inverted fails before any rasterizer is created.              *)
(***************************************************************************)
DrawBounded ==
    view.op = "draw" =>
        /\ view.pool <= DP_DRAW_CONTEXT_RASTER_POOL_MAX_SIZE
        /\ (view.pc = "return" /\ view.ret) =>
               (view.passes >= 1 /\ view.error # "ErrRaster_OutOfMemory")
        /\ ~view.invertible => (view.pc = "return" /\ ~view.ret /\ view.news = 0)

DrawDoubles ==
    (view.op = "draw" /\ view'.op = "draw" /\ view'.passes = view.passes + 1
        /\ view'.error = "ErrRaster_OutOfMemory") =>
            /\ view'.raster_pool_size = 2 * view.raster_pool_size
            /\ view'.raster_pool_size > DP_DRAW_CONTEXT_RASTER_POOL_MAX_SIZE =>
                   (view'.pc = "return" /\ ~view'.ret /\ view'.pool = view.pool)
            /\ (view'.raster_pool_size <= DP_DRAW_CONTEXT_RASTER_POOL_MAX_SIZE) =>
                   view'.pool = view'.raster_pool_size

C32_RetryLoopTerminates ==
    /\ []DrawBounded
    /\ [][DrawDoubles]_vars
    /\ (view.op = "draw") ~> (view.op = "draw" /\ view.pc = "return")

C32_Witness ==
    /\ view.op = "draw"
    /\ view.pc = "return"
    /\ ~view.ret
    /\ view.passes = 3
    /\ view.raster_pool_size > DP_DRAW_CONTEXT_RASTER_POOL_MAX_SIZE
    /\ view.raster_pool_size = 2 * view.pool

(***************************************************************************)
(* C39: when DP_image_transform_draw returns, every rasterizer it created  *)
(* has been released exactly once, whichever way it returns, and no span   *)
(* has been rendered twice across the passes.                              *)
(***************************************************************************)
C39_RasterBalanced ==
    (view.op = "draw" /\ view.pc = "return") =>
        /\ view.dones = view.news
        /\ \A i, j \in 1 .. Len(view.rendered) :
               view.rendered[i] = view.rendered[j] => i = j

(***************************************************************************)
(* render_spans, one step per turn of each of its three loops.  view is    *)
(* the call in progress: the span array, the index the pointer spans is    *)
(* at, the locals, the pixels handed to process_span with the span they    *)
(* were handed over for, and the lengths asked of                          *)
(* fetch_transformed_bilinear.                                             *)
(***************************************************************************)
(* The pixels of the draw context's transform buffer, scaled down. *)
DP_DRAW_CONTEXT_TRANSFORM_BUFFER_SIZE == 2

RECURSIVE adjacent_right(_, _, _, _, _, _)
adjacent_right(spans, at, count, i, y, right) ==
    IF i < count /\ spans[at + i].y = y /\ spans[at + i].x = right
    THEN adjacent_right(spans, at, count, i + 1, y, right + spans[at + i].len)
    ELSE right

render_spans_begin(count, spans) ==
    [op |-> "spans", pc |-> "count", spans |-> spans, given |-> count, count |-> count,
     at |-> 1, x |-> 0, y |-> 0, length |-> 0, l |-> 0, offset |-> 0, coverage |-> 0,
     composited |-> <<>>, fetched |-> <<>>]

(* A turn of while (count), up to the loop over the run's chunks. *)
render_spans_count(rs) ==
    IF rs.count = 0
    THEN [rs EXCEPT !.pc = "return"]
    ELSE IF rs.spans[rs.at].len = 0
    THEN [rs EXCEPT !.at = @ + 1, !.count = @ - 1]
    ELSE [rs EXCEPT !.pc = "length", !.x = rs.spans[rs.at].x, !.y = rs.spans[rs.at].y,
                    !.length = adjacent_right(rs.spans, rs.at, rs.count, 1, rs.spans[rs.at].y,
                                   rs.spans[rs.at].x + rs.spans[rs.at].len) - rs.spans[rs.at].x]

(* A turn of while (length), up to the loop over the chunk's spans. *)
render_spans_length(rs, l) ==
    IF rs.length = 0
    THEN [rs EXCEPT !.pc = "count"]
    ELSE [rs EXCEPT !.pc = "l", !.l = l, !.length = @ - l, !.offset = 0,
                    !.fetched = Append(@, l)]

process_span(rs, pl, coverage) ==
    [rs EXCEPT !.coverage = coverage,
               !.composited = @ \o [j \in 1 .. pl |-> <<rs.at, rs.x + j - 1, rs.y, coverage>>],
               !.l = @ - pl, !.x = @ + pl, !.offset = @ + pl]

span_done(rs, pr) ==
    IF rs.x = pr THEN [rs EXCEPT !.at = @ + 1, !.count = @ - 1] ELSE rs

(* A span keeps the coverage of the span before it. *)
render_spans_l_stale(rs) ==
    IF rs.l <= 0
    THEN [rs EXCEPT !.pc = "length"]
    ELSE span_done(process_span(rs, DP_min_int(rs.l, rs.spans[rs.at].x + rs.spans[rs.at].len - rs.x),
                                IF rs.x = rs.spans[rs.at].x /\ rs.coverage = 0
                                THEN rs.spans[rs.at].coverage ELSE rs.coverage),
                   rs.spans[rs.at].x + rs.spans[rs.at].len)

(* A turn of while (l > 0). *)
render_spans_l(rs) ==
    IF rs.l <= 0
    THEN [rs EXCEPT !.pc = "length"]
    ELSE span_done(process_span(rs, DP_min_int(rs.l, rs.spans[rs.at].x + rs.spans[rs.at].len - rs.x),
                                IF rs.x = rs.spans[rs.at].x
                                THEN (rs.spans[rs.at].coverage * 256) \div 256 ELSE rs.coverage),
                   rs.spans[rs.at].x + rs.spans[rs.at].len)

(* Spans on two rows, empty ones, ones that touch, overlap or lie apart. *)
Spans ==
    [x : {0, 2, 3}, y : {0}, len : 0 .. 3, coverage : {64, 255}]
        \cup {[x |-> 2, y |-> 1, len |-> 1, coverage |-> 255],
              [x |-> 0, y |-> 1, len |-> 3, coverage |-> 64]}

SpanLists == {<<>>} \cup [1 .. 1 -> Spans] \cup [1 .. 2 -> Spans] \cup [1 .. 3 -> Spans]

RenderSpans ==
    /\ ~crashed
    /\ view = NoView
    /\ \E spans \in SpanLists : Drawing(render_spans_begin(Len(spans), spans))

RenderSpansCount ==
    /\ ~crashed
    /\ view.op = "spans"
    /\ view.pc = "count"
    /\ Drawing(render_spans_count(view))

RenderSpansLength ==
    /\ ~crashed
    /\ view.op = "spans"
    /\ view.pc = "length"
    /\ Drawing(render_spans_length(view, DP_min_int(view.length, DP_DRAW_CONTEXT_TRANSFORM_BUFFER_SIZE)))

RenderSpansL ==
    /\ ~crashed
    /\ view.op = "spans"
    /\ view.pc = "l"
    /\ Drawing(render_spans_l(view))

InitSpans == InitImage

NextSpans ==
    \/ RenderSpans
    \/ RenderSpansCount
    \/ RenderSpansLength
    \/ RenderSpansL

SpecSpans == InitSpans /\ [][NextSpans]_vars

(* The loops go on as long as they can. *)
SpecSpansLive ==
    SpecSpans /\ WF_vars(RenderSpansCount) /\ WF_vars(RenderSpansLength) /\ WF_vars(RenderSpansL)

(***************************************************************************)
(* C38: render_spans comes to an end for every span list, having consumed  *)
(* exactly count spans: every pixel of every span was composited exactly   *)
(* once, with the coverage of its span, also when the span was split over  *)
(* two chunks; empty spans composited nothing; and no fetch asked for more *)
(* than DP_DRAW_CONTEXT_TRANSFORM_BUFFER_SIZE pixels.                      *)
(***************************************************************************)
SpanPixels(spans) ==
    UNION {{<<k, spans[k].x + j, spans[k].y, spans[k].coverage>> :
               j \in 0 .. (spans[k].len - 1)} : k \in DOMAIN spans}

SpansRendered ==
    view.op = "spans" =>
        /\ \A f \in DOMAIN view.fetched :
               view.fetched[f] >= 1 /\ view.fetched[f] <= DP_DRAW_CONTEXT_TRANSFORM_BUFFER_SIZE
        /\ view.count = view.given - (view.at - 1)
        /\ (view.pc = "l" /\ view.l > 0) => view.at <= view.given
        /\ \A i, j \in DOMAIN view.composited :
               view.composited[i] = view.composited[j] => i = j
        /\ \A i \in DOMAIN view.composited : view.composited[i] \in SpanPixels(view.spans)
        /\ view.pc = "return" =>
               /\ view.count = 0
               /\ {view.composited[i] : i \in DOMAIN view.composited} = SpanPixels(view.spans)

C38_RenderSpans ==
    /\ []SpansRendered
    /\ (view.op = "spans") ~> (view.op = "spans" /\ view.pc = "return")

C38_Witness ==
    /\ view.op = "spans"
    /\ view.pc = "return"
    /\ view.spans = <<[x |-> 0, y |-> 0, len |-> 2, coverage |-> 64],
                      [x |-> 2, y |-> 0, len |-> 0, coverage |-> 255],
                      [x |-> 2, y |-> 0, len |-> 3, coverage |-> 255]>>
    /\ Len(view.fetched) >= 2
    /\ Len(view.composited) = 5

(***************************************************************************)
(* C33: whenever DP_image_png_read fails it returns no image and has       *)
(* released the read struct it created; an image it returns has every      *)
(* pixel of every row.                                                     *)
(***************************************************************************)
C33_PngReadReleases ==
    view.op = "png" =>
        /\ ~IsImage(view.ret) => view.destroyed = view.created
        /\ IsImage(view.ret) =>
               /\ view.destroyed = view.created
               /\ png_read_png(view.in)
               /\ view.in.rowbytes = 4 * view.in.width
               /\ \A x \in 0 .. (view.in.width - 1), y \in 0 .. (view.in.height - 1) :
                      PixelAt(view.ret, <<x, y>>) = buffer_pixel(view.in.rows[y + 1], x)

(***************************************************************************)
(* The handlers whose references the following properties count, applied   *)
(* to an empty canvas and to canvases with one and two painted layers.     *)
(***************************************************************************)
InitReferences ==
    \E k \in {0, 4, 7} :
        \E m \in {Run(Fresh, SubSeq(History, 1, k))} :
            /\ heap = m.heap
            /\ cur = m.cur
            /\ log = m.log
            /\ pre = m.pre
            /\ crashed = m.crashed
            /\ steps = 0
            /\ threads = NoCalls
            /\ diff = DP_canvas_diff_new
            /\ view = NoView

NextReferences ==
    \/ CanvasResize
    \/ LayerCreate
    \/ LayerAttr
    \/ LayerOrder
    \/ LayerRetitle
    \/ LayerDelete
    \/ LayerVisibility
    \/ PutImage
    \/ RegionMove
    \/ PutTile
    \/ CanvasBackground
    \/ PenUp

SpecReferences == InitReferences /\ [][NextReferences]_vars

(***************************************************************************)
(* C34: in handle_layer_order the layer list given to the reorder is       *)
(* alive when the reorder is called, the input snapshot holding it, though *)
(* the transient dropped its reference before; once the handler has        *)
(* returned, the input snapshot's layer list has the reference count it    *)
(* had before the call, and the new snapshot's layer list is the list the  *)
(* reorder made, held by the new snapshot alone.                           *)
(***************************************************************************)
LayerOrderCalled == Len(log) > 0 /\ LastCall.msg.type = "LAYER_ORDER"

C34_LayerOrderReferences ==
    LayerOrderCalled =>
        /\ layer_order_released(pre, LastCall.input).ll[pre.cs[LastCall.input].layers].refcount >= 1
        /\ ~layer_order_released(pre, LastCall.input).ll[pre.cs[LastCall.input].layers].freed
        /\ ~LastCall.crash =>
               /\ LastCall.ret # NULL
               /\ heap.ll[pre.cs[LastCall.input].layers].refcount
                      = pre.ll[pre.cs[LastCall.input].layers].refcount
               /\ ~heap.ll[pre.cs[LastCall.input].layers].freed
               /\ heap.cs[LastCall.ret].layers > Len(pre.ll)
               /\ heap.cs[LastCall.ret].layers = Len(heap.ll)
               /\ Len(heap.ll) = Len(pre.ll) + 1
               /\ heap.ll[heap.cs[LastCall.ret].layers].refcount = 1
               /\ ~heap.ll[heap.cs[LastCall.ret].layers].transient
               /\ ~heap.ll[heap.cs[LastCall.ret].layers].freed

C34_Witness ==
    /\ LayerOrderCalled
    /\ ~LastCall.crash
    /\ Len(heap.ll[heap.cs[LastCall.ret].layers].elems) = 2
    /\ heap.ll[heap.cs[LastCall.ret].layers].elems
           # heap.ll[pre.cs[LastCall.input].layers].elems

(***************************************************************************)
(* C35: whenever handle_region_move returns after it decoded a mask, the   *)
(* mask image has been freed exactly once, whether the destination is too  *)
(* large, the layer list fails or the move succeeds.                       *)
(***************************************************************************)
MaskDecoded ==
    /\ HasCall
    /\ LastCall.msg.type = "REGION_MOVE"
    /\ LastCall.msg.src[3] > 0
    /\ LastCall.msg.src[4] > 0
    /\ LastCall.msg.mask = "ok"

C35_MaskFreedOnce ==
    MaskDecoded =>
        /\ Len(heap.img) = Len(pre.img) + 1
        /\ heap.img[Len(heap.img)].frees = 1
        /\ \A i \in DOMAIN pre.img : heap.img[i] = pre.img[i]

(***************************************************************************)
(* C36: the first get_transient_layer_list on a transient canvas state     *)
(* puts a transient copy in the place of the shared layer list and drops   *)
(* the transient state's reference to the shared list, which leaves the    *)
(* input snapshot's list with the reference count it had before the        *)
(* handler; a later call returns the same transient list and copies        *)
(* nothing; a handler that never calls it leaves the new snapshot with the *)
(* layer list object of the input.                                         *)
(***************************************************************************)
(* The layer list of the input snapshot of the last call. *)
SharedList == pre.cs[LastCall.input].layers

(* The handlers that ask for the transient layer list once they have made  *)
(* their transient canvas state.                                           *)
CopyingTypes ==
    {"LAYER_CREATE", "LAYER_ATTR", "LAYER_RETITLE", "LAYER_DELETE", "LAYER_VISIBILITY",
     "PUT_IMAGE", "FILL_RECT", "REGION_MOVE", "PUT_TILE", "PEN_UP", "DRAW_DABS_CLASSIC",
     "DRAW_DABS_PIXEL", "DRAW_DABS_PIXEL_SQUARE"}

ListCopied ==
    /\ Len(heap.ll) = Len(pre.ll) + 1
    /\ heap.cs[LastCall.tcs].layers = Len(heap.ll)
    /\ heap.ll[SharedList].refcount = pre.ll[SharedList].refcount
    /\ ~heap.ll[SharedList].freed
    /\ LastCall.ret # NULL =>
           (heap.ll[Len(heap.ll)].refcount = 1 /\ ~heap.ll[Len(heap.ll)].transient)
    /\ LastCall.ret = NULL => heap.ll[Len(heap.ll)].freed

ListShared ==
    /\ Len(heap.ll) = Len(pre.ll)
    /\ heap.cs[LastCall.tcs].layers = SharedList
    /\ heap.ll[SharedList].refcount
           = pre.ll[SharedList].refcount + (IF LastCall.ret # NULL THEN 1 ELSE 0)

ResizeCopies ==
    /\ LastCall.msg.type = "CANVAS_RESIZE"
    /\ LastCall.ret # NULL
    /\ pre.ll[SharedList].elems # <<>>

(* A second call on a transient whose list is transient already. *)
SecondCallSame ==
    \A first \in {0, 1} :
        \E h \in {transient_with_layers(heap, cur, first)} :
            /\ get_transient_layer_list(h, NextCanvasState(heap), 0) = h
            /\ get_transient_layer_list(h, NextCanvasState(heap), 1) = h
            /\ h.cs[NextCanvasState(heap)].layers = Len(heap.ll) + 1
            /\ Len(h.ll) = Len(heap.ll) + 1

C36_CopyOnWrite ==
    /\ ~crashed => SecondCallSame
    /\ (HasCall /\ ~LastCall.crash /\ LastCall.tcs # NULL) =>
           /\ LastCall.msg.type \in CopyingTypes => ListCopied
           /\ ResizeCopies => ListCopied
           /\ (LastCall.msg.type = "CANVAS_RESIZE" /\ ~ResizeCopies) => ListShared
           /\ LastCall.msg.type = "CANVAS_BACKGROUND" => ListShared

C36_Witness ==
    /\ HasCall
    /\ ~LastCall.crash
    /\ LastCall.msg.type = "CANVAS_BACKGROUND"
    /\ LastCall.ret # NULL
    /\ Len(log) >= 2
    /\ log[Len(log) - 1].msg.type = "LAYER_CREATE"
    /\ log[Len(log) - 1].ret # NULL
    /\ heap.cs[LastCall.ret].layers = heap.cs[log[Len(log) - 1].ret].layers
    /\ heap.ll[heap.cs[LastCall.ret].layers].refcount = 2

(***************************************************************************)
(* C37: the tiles the handlers build for themselves are balanced.  The     *)
(* count of a tile is the count of the references that handlers and canvas *)
(* states hold; a handler's new tile starts at 1.  handle_layer_create     *)
(* builds a tile only for a fill that is not zero and has released it once *)
(* when it returns, with or without the layer; handle_put_tile has         *)
(* released its tile once when it returns, with or without the tile put,   *)
(* and builds no transient for a payload that does not decode;             *)
(* handle_canvas_background leaves its one reference with the new          *)
(* snapshot, and the old background tile with the count it had.            *)
(***************************************************************************)
NoTileBuilt == Len(heap.tile) = Len(pre.tile)

OneTileBuilt(refcount) ==
    /\ Len(heap.tile) = Len(pre.tile) + 1
    /\ heap.tile[Len(heap.tile)].refcount = refcount

C37_TilesBalanced ==
    (HasCall /\ ~LastCall.crash) =>
        /\ LastCall.msg.type = "LAYER_CREATE" =>
               /\ LastCall.tcs # NULL
               /\ LastCall.msg.fill = BLANK => NoTileBuilt
               /\ LastCall.msg.fill # BLANK => OneTileBuilt(0)
        /\ LastCall.msg.type = "PUT_TILE" =>
               /\ PayloadDecodes => (LastCall.tcs # NULL /\ OneTileBuilt(0))
               /\ ~PayloadDecodes =>
                      (LastCall.tcs = NULL /\ LastCall.ret = NULL /\ NoTileBuilt)
        /\ (LastCall.msg.type = "CANVAS_BACKGROUND" /\ PayloadDecodes) =>
               /\ OneTileBuilt(1)
               /\ LastCall.ret # NULL
               /\ heap.cs[LastCall.ret].background_tile = Len(heap.tile)
               /\ OldBackground # NULL =>
                      /\ heap.tile[OldBackground].refcount = pre.tile[OldBackground].refcount
                      /\ heap.tile[OldBackground].refcount >= 1

C37_Witness ==
    /\ HasCall
    /\ LastCall.msg.type = "LAYER_CREATE"
    /\ Failed(LastCall)
    /\ LastCall.msg.fill # BLANK
    /\ Len(heap.tile) >= 2
    /\ heap.tile[Len(heap.tile)].refcount = 0

====
